---- MODULE Spec2Model ----
(***************************************************************************)
(* Document conversion service: the job queue, the worker pool, the job    *)
(* record state machine and the capability-token protocol of              *)
(* doc_service/conversion/service.py, conversion/adapters.py and          *)
(* webapi.py.                                                             *)
(*                                                                         *)
(* The event loop is single threaded: a coroutine runs from one await to  *)
(* the next without interleaving.  Each action below is one such segment. *)
(* A worker that finds the queue non-empty at the top of its loop does    *)
(* not suspend in asyncio; the model lets other coroutines run there,     *)
(* which only adds interleavings.                                         *)
(***************************************************************************)
EXTENDS Integers, Sequences, FiniteSets, TLC

(* ------------------------------ bounds -------------------------------- *)
\* job ids ever allocated (uuid4 values in use)
MaxJobs == 3
\* job ids allocated while the read API is exercised
MaxApiJobs == 1
\* size of the worker pool (env WORKERS, any positive value is a valid configuration)
WORKERS == 2
\* distinct 32-byte secrets the token source can draw
MaxRaw == 2
\* upload ceiling in bytes (MAX_UPLOAD_MB * 1024 * 1024, scaled)
MaxBytes == 2
\* last reading of the wall clock
MaxTime == 1

(* ------------------------- optional values ---------------------------- *)
\* Python None / JSON null, and a present value
None == <<>>
Some(v) == <<v>>
IsSet(o) == o # None
Val(o) == o[1]

(* ------------------------------ JobStatus ----------------------------- *)
QUEUED == "queued"
RUNNING == "running"
SUCCEEDED == "succeeded"
FAILED == "failed"

JobIds == 1..MaxJobs
\* names worker-1 .. worker-N of start(); one spare name so that a pool
\* larger than configured is expressible
WorkerIds == 1..(WORKERS + 1)

(* ------------------------------ TokenCodec ---------------------------- *)
\* secrets.token_bytes(32)
TOKEN_BYTES == 32
\* unpadded base64url length the API accepts
TOKEN_LEN == 43

\* A byte string is [n: its length, v: its content among strings of that length].
Bytes(n, v) == [n |-> n, v |-> v]

\* A token text is described by: len, the number of characters (padding
\* stripped); body, the content of the bytes its full 8-bit groups decode to; slack, the
\* value of the bits of the last character that belong to no byte; junk,
\* the number of characters outside the base64 alphabets.
Text(len, body, slack, junk) == [len |-> len, body |-> body, slack |-> slack, junk |-> junk]

\* base64.urlsafe_b64encode(raw).rstrip(b"="): ceil(8n/6) characters, slack bits zero
B64UrlEncode(raw) == Text((raw.n * 8 + 5) \div 6, raw.v, 0, 0)

\* _b64url_to_bytes: pads to a multiple of 4 and decodes; characters outside
\* the alphabet are discarded, the slack bits are dropped.  None when
\* binascii raises (data characters = 1 mod 4, or padding that no longer fits
\* once junk was discarded).
B64UrlToBytes(t) ==
  LET data == t.len - t.junk
      pad  == (4 - (t.len % 4)) % 4
      need == (4 - (data % 4)) % 4
  IN  IF data % 4 = 1 \/ pad < need
      THEN None
      ELSE Some(Bytes((data * 6) \div 8, t.body))

\* hashlib.sha256(raw).digest(): 32 bytes, one digest per input (collision free here)
Sha256(raw) == Bytes(32, (raw.n + 1) * 1000 + raw.v)

\* Argon2Security.new_token, from the drawn secret
NewToken(r) == B64UrlEncode(Bytes(TOKEN_BYTES, r))

\* the digest is taken over the characters of the token, not over the
\* bytes they encode
HashToken_OfText(t) == B64UrlEncode(Sha256(Bytes(t.len, t.body)))

\* Argon2Security.hash_token (defined where the text decodes)
HashToken(t) == B64UrlEncode(Sha256(Val(B64UrlToBytes(t))))

\* A stored digest string: "" , a legacy "$argon2..." PHC string, or base64url text.
EmptyDigest == [kind |-> "empty"]
LegacyDigest(raw) == [kind |-> "argon2", of |-> raw]
TextDigest(t) == [kind |-> "b64", text |-> t]

\* How a call ends: it raises, or it returns a value.
Raised == [raised |-> TRUE]
Returned(v) == [raised |-> FALSE, value |-> v]

\* hash_token as a call: _b64url_to_bytes raises where the text does not decode
HashTokenCall(t) == IF B64UrlToBytes(t) = None THEN Raised ELSE Returned(HashToken(t))

\* Argon2Security.verify, the statements inside its try: _b64url_to_bytes
\* raises where the text does not decode; argon2's verify_secret returns
\* True for the secret the PHC string was made from and raises for any
\* other; compare_digest compares the two strings.
VerifyTry(phc, t) ==
  LET raw == B64UrlToBytes(t)
  IN  IF raw = None THEN Raised
      ELSE CASE phc.kind = "argon2" -> IF phc.of = Val(raw) THEN Returned(TRUE) ELSE Raised
             [] phc.kind = "b64" -> Returned(B64UrlEncode(Sha256(Val(raw))) = phc.text)
             [] OTHER -> Returned(FALSE)

\* the exception is not caught
Guarded_Propagates(call) == call

\* 'except Exception: return False'
Guarded(call) == IF call.raised THEN Returned(FALSE) ELSE call

\* Argon2Security.verify as a call
VerifyCall(phc, t) == Guarded(VerifyTry(phc, t))

\* Argon2Security.verify: the value it returns
Verify(phc, t) == VerifyCall(phc, t).value

(* ------------------------------ uploads ------------------------------- *)
\* A file name is a sequence of pieces: ".", "/" and runs of other characters;
\* a content type is a lower-case string.
RECURSIVE LastIndexOf(_, _, _)
LastIndexOf(name, ch, i) ==
  IF i = 0 THEN 0
  ELSE IF name[i] = ch THEN i ELSE LastIndexOf(name, ch, i - 1)

\* create_job_from_upload: '"." + original_name.rsplit(".", 1)[-1]', or "" without a dot
SafeExt(name) ==
  LET d == LastIndexOf(name, ".", Len(name))
  IN  IF d = 0 THEN <<>> ELSE SubSeq(name, d, Len(name))

\* os.path.splitext(name)[1]: the suffix of the last path component from its
\* last dot, empty when that dot only leads the component
SplitExt(name) ==
  LET s == LastIndexOf(name, "/", Len(name))
      d == LastIndexOf(name, ".", Len(name))
      lead == \A k \in (s + 1)..d : name[k] = "."
  IN  IF d <= s \/ lead THEN <<>> ELSE SubSeq(name, d, Len(name))

ALLOWED_MIME ==
  {"application/pdf",
   "application/vnd.openxmlformats-officedocument.wordprocessingml.document",
   "application/vnd.openxmlformats-officedocument.presentationml.presentation",
   "application/vnd.openxmlformats-officedocument.presentationml.slideshow",
   "application/vnd.ms-powerpoint",
   "application/vnd.openxmlformats-officedocument.spreadsheetml.sheet"}
SupportedExts ==
  {<<".", "pdf">>, <<".", "docx">>, <<".", "pptx">>, <<".", "ppsx">>, <<".", "ppt">>, <<".", "xlsx">>}

\* webapi.create_job: the media-type gate in front of the service
UnsupportedMedia(up) ==
  /\ up.content_type # ""
  /\ up.content_type \notin ALLOWED_MIME
  /\ SplitExt(up.filename) \notin SupportedExts

\* hashlib.sha256 over the bytes written, as hexdigest: one value per byte string
RECURSIVE Sha256Hex(_)
Sha256Hex(data) ==
  IF data = <<>> THEN 1 ELSE 2 * Sha256Hex(SubSeq(data, 1, Len(data) - 1)) + data[Len(data)]

\* The locals of the streaming loop as it is entered: the bytes in the file
\* just opened, size_bytes, and the bytes the sha256 object was fed.
Opened == [written |-> <<>>, size |-> 0, fed |-> <<>>]

\* 'size_bytes += len(b)'
Counted(acc, b) == [acc EXCEPT !.size = @ + Len(b)]

\* the chunk goes to the file and not to the checksum
Written_Unhashed(acc, b) == [acc EXCEPT !.written = @ \o b]

\* 'f_out.write(b); sha256.update(b)'
Written(acc, b) == [acc EXCEPT !.written = @ \o b, !.fed = @ \o b]

\* The streaming loop of create_job_from_upload: reads until an empty chunk,
\* aborts as soon as the running size passes max_bytes.  data is the content
\* of the input file when the loop is left, reads the calls of the reader.
RECURSIVE Ingest(_, _, _, _)
Ingest(chunks, i, acc, max_bytes) ==
  IF i > Len(chunks) \/ chunks[i] = <<>>
  THEN [ok |-> TRUE, data |-> acc.written, size_bytes |-> acc.size,
        checksum |-> Sha256Hex(acc.fed), reads |-> i]
  ELSE IF Counted(acc, chunks[i]).size > max_bytes
       THEN [ok |-> FALSE, data |-> acc.written, size_bytes |-> Counted(acc, chunks[i]).size,
             checksum |-> Sha256Hex(acc.fed), reads |-> i]
       ELSE Ingest(chunks, i + 1, Written(Counted(acc, chunks[i]), chunks[i]), max_bytes)

\* the partial input file is closed and left where it is
AfterAbort_Kept(file) == file

\* 'f_out.close(); input_path.unlink(missing_ok=True)': what is left of the
\* partial input file when the upload is aborted
AfterAbort(file) == None

\* pathlib's join: separators that trail the last component are dropped
RECURSIVE Joined(_)
Joined(pieces) ==
  IF pieces # <<>> /\ pieces[Len(pieces)] = "/"
  THEN Joined(SubSeq(pieces, 1, Len(pieces) - 1))
  ELSE pieces

\* the input file is given the name the client declared
InputPath_Declared(id, name) == <<"jobs", id, "input", name>>

\* input_dir / f"original{ext}": the directories down to the job's input
\* directory, then what the join makes of "original" + ext
InputPath(id, name) == <<"jobs", id, "input", Joined(<<"original">> \o SafeExt(name))>>

\* input_path.open("wb") raises FileNotFoundError where the path goes on
\* below the input directory: no directory was made there
Openable(path) == \A k \in 1..Len(path[4]) : path[4][k] # "/"
ResultPath(id) == <<"jobs", id, "output", "result.md">>

(* ---------------------------- result text ----------------------------- *)
\* A Markdown text is a sequence of pieces: CR, LF and runs of other
\* characters.  The file result.md holds the characters written to it.
CR == "CR"
LF == "LF"

\* os.linesep of the platform the service runs on
LineSep == <<LF>>

\* open("w", encoding="utf-8") and f.write(md): text mode with the default
\* newline, every LF is written as os.linesep
RECURSIVE WriteText(_)
WriteText(text) ==
  IF text = <<>> THEN <<>>
  ELSE (IF Head(text) = LF THEN LineSep ELSE <<Head(text)>>) \o WriteText(Tail(text))

\* open("r", encoding="utf-8") and f.read(): text mode with the default
\* newline, CR LF and a lone CR are both read as LF
RECURSIVE ReadText(_)
ReadText(data) ==
  IF data = <<>> THEN <<>>
  ELSE IF Head(data) = CR
       THEN <<LF>> \o ReadText(IF Len(data) > 1 /\ data[2] = LF
                               THEN SubSeq(data, 3, Len(data)) ELSE Tail(data))
       ELSE <<Head(data)>> \o ReadText(Tail(data))

(* ------------------------------- state -------------------------------- *)
VARIABLES
  phase,       \* "new": SERVICE is None; "started": after _startup; "stopped": after _shutdown
  tasks,       \* ConversionService._tasks: the workers spawned
  pc,          \* per worker: "none" | "get" | "convert" | "write" | "ended" | "crashed"
  cancelReq,   \* per worker: Task.cancel() was called and CancelledError is not yet delivered
  held,        \* per worker: the local job_id of the iteration in progress
  job,         \* per worker: the local dict 'job' kept across the awaits
  md,          \* per worker: the converter's return value
  queue,       \* ConversionService._queue
  unfinished,  \* asyncio.Queue._unfinished_tasks
  dirs,        \* job ids whose directories exist under DATA_DIR/jobs
  inputs,      \* per job id: the input file (name, bytes), if any
  disk,        \* store: job.json per job id; log (history): every status persisted, in order
  results,     \* per job id: output/result.md, if any
  clock,       \* wall clock read by datetime.now
  resp,        \* the HTTP response of the last step, when that step was a request
  pushes,      \* history: queue.put calls per job id
  pops,        \* history: queue.get returns per job id
  issued       \* history: the access_token the creation response carried, per job id

vars == <<phase, tasks, pc, cancelReq, held, job, md, queue, unfinished, dirs, inputs,
          disk, results, clock, resp, pushes, pops, issued>>

NoResp == [op |-> "none"]

\* convert_to_markdown and write_output are called on the event loop's own
\* thread, which they hold until they return
LoopHolders_Inline == {w \in WorkerIds : pc[w] \in {"convert", "write"}}

\* the workers whose pending call holds the thread of the event loop: none,
\* both calls are handed to asyncio.to_thread and awaited
LoopHolders == {}

\* the event loop can run coroutine c (a worker, or 0 for a request handler
\* or a lifespan hook): no call of another coroutine holds its thread
Runs(c) == LoopHolders \subseteq {c}

(* ------------------------------ JobStore ------------------------------ *)
\* the storage looks under another base directory than the one records are
\* written to
LoadJob_Elsewhere(d, id) == None

\* LocalStorage.load_job: the record, or None where it raises FileNotFoundError
LoadJob(d, id) == d.store[id]

\* LocalStorage.save_job: rewrites job.json of job["id"]
SaveJob(d, rec) ==
  [store |-> [d.store EXCEPT ![rec.id] = Some(rec)],
   log   |-> [d.log EXCEPT ![rec.id] = Append(@, rec.status)]]

\* the except branch writes a failed record of its own when it finds none
RecordFailure_Upsert(d, id, err, now, ok) ==
  IF ok
  THEN SaveJob(d, IF LoadJob(d, id) # None
                  THEN [Val(LoadJob(d, id)) EXCEPT !.status = FAILED,
                                                   !.error = Some(err),
                                                   !.failed_at = Some(now),
                                                   !.updated_at = now]
                  ELSE [id |-> id, status |-> FAILED, error |-> Some(err),
                        failed_at |-> Some(now), updated_at |-> now])
  ELSE d

\* the except branch also writes the progress of a finished job
RecordFailure_ProgressDone(d, id, err, now, ok) ==
  IF ok /\ LoadJob(d, id) # None
  THEN SaveJob(d, [Val(LoadJob(d, id)) EXCEPT !.status = FAILED,
                                             !.error = Some(err),
                                             !.failed_at = Some(now),
                                             !.updated_at = now,
                                             !.progress = 100])
  ELSE d

\* _worker_loop, the except branch: reload, mark failed, save; any error in
\* there (ok = FALSE: the load or the save raised) is swallowed
RecordFailure(d, id, err, now, ok) ==
  IF ok /\ LoadJob(d, id) # None
  THEN SaveJob(d, [Val(LoadJob(d, id)) EXCEPT !.status = FAILED,
                                             !.error = Some(err),
                                             !.failed_at = Some(now),
                                             !.updated_at = now])
  ELSE d

(* ----------------------------- lifecycle ------------------------------ *)
Init ==
  /\ phase = "new"
  /\ tasks = {}
  /\ pc = [w \in WorkerIds |-> "none"]
  /\ cancelReq = [w \in WorkerIds |-> FALSE]
  /\ held = [w \in WorkerIds |-> None]
  /\ job = [w \in WorkerIds |-> None]
  /\ md = [w \in WorkerIds |-> None]
  /\ queue = <<>>
  /\ unfinished = 0
  /\ dirs = {}
  /\ inputs = [j \in JobIds |-> None]
  /\ disk = [store |-> [j \in JobIds |-> None], log |-> [j \in JobIds |-> <<>>]]
  /\ results = [j \in JobIds |-> None]
  /\ clock = 0
  /\ resp = NoResp
  /\ pushes = [j \in JobIds |-> 0]
  /\ pops = [j \in JobIds |-> 0]
  /\ issued = [j \in JobIds |-> None]

\* range(workers + 1): one task too many
Spawned_OneMore == 1..(WORKERS + 1)

\* ConversionService.start: the names of the tasks it creates
Spawned == 1..WORKERS

\* webapi._startup: builds SERVICE and awaits SERVICE.start()
Startup ==
  /\ phase = "new"
  /\ phase' = "started"
  /\ tasks' = tasks \cup Spawned
  /\ pc' = [w \in WorkerIds |-> IF w \in Spawned THEN "get" ELSE pc[w]]
  /\ resp' = NoResp
  /\ UNCHANGED <<cancelReq, held, job, md, queue, unfinished, dirs, inputs, disk,
                 results, clock, pushes, pops, issued>>

\* stop() returns without cancelling any task
StopRequests_NoneCancelled == cancelReq

\* ConversionService.stop: Task.cancel() on every task; a finished task ignores it
StopRequests == [w \in WorkerIds |-> cancelReq[w] \/ (w \in tasks /\ pc[w] \notin {"ended", "crashed"})]

\* webapi._shutdown
Shutdown ==
  /\ phase = "started" /\ Runs(0)
  /\ phase' = "stopped"
  /\ cancelReq' = StopRequests
  /\ resp' = NoResp
  /\ UNCHANGED <<tasks, pc, held, job, md, queue, unfinished, dirs, inputs, disk,
                 results, clock, pushes, pops, issued>>

\* the converter call is awaited under wait_for(..., JOB_TIMEOUT_SEC): once
\* time has passed a pending call is given up
Overdue_Enforced == {w \in WorkerIds : pc[w] = "convert"}

\* the workers whose pending converter call is given up as time passes:
\* none, the call is awaited without a deadline and JOB_TIMEOUT_SEC is
\* read from the environment and used nowhere
Overdue == {}

\* the wall clock advances between two segments of the event loop; a
\* worker whose call is given up ends its iteration
Tick ==
  /\ clock < MaxTime
  /\ clock' = clock + 1
  /\ pc' = [w \in WorkerIds |-> IF w \in Overdue THEN "get" ELSE pc[w]]
  /\ held' = [w \in WorkerIds |-> IF w \in Overdue THEN None ELSE held[w]]
  /\ job' = [w \in WorkerIds |-> IF w \in Overdue THEN None ELSE job[w]]
  /\ unfinished' = unfinished - Cardinality(Overdue)
  /\ resp' = NoResp
  /\ UNCHANGED <<phase, tasks, cancelReq, md, queue, dirs, inputs, disk, results, pushes,
                 pops, issued>>

\* The response of a request handler leaves the process.  Handlers run one
\* at a time on the event loop; resp holds the response of the handler that
\* ran last until it is sent or another coroutine runs.
Sent ==
  /\ resp # NoResp /\ Runs(0)
  /\ resp' = NoResp
  /\ UNCHANGED <<phase, tasks, pc, cancelReq, held, job, md, queue, unfinished, dirs,
                 inputs, disk, results, clock, pushes, pops, issued>>

(* ---------------------------- job creation ---------------------------- *)
\* uuid.uuid4(): an id never used before
FreshIds(ids) == IF ids \subseteq dirs THEN {} ELSE {CHOOSE j \in ids \ dirs : \A k \in ids \ dirs : j <= k}

\* filename or "upload"
OriginalName(name) == IF name = <<>> THEN <<"upload">> ELSE name

\* job_meta keeps the token itself where its digest belongs
JobMeta_RawToken(id, up, got, token, now) ==
  [id |-> id,
   filename |-> OriginalName(up.filename),
   content_type |-> IF up.content_type = "" THEN "application/octet-stream" ELSE up.content_type,
   size_bytes |-> got.size_bytes,
   created_at |-> now,
   updated_at |-> now,
   started_at |-> None,
   completed_at |-> None,
   failed_at |-> None,
   status |-> QUEUED,
   progress |-> 0,
   error |-> None,
   input_uri |-> InputPath(id, OriginalName(up.filename)),
   output_uri |-> None,
   artifacts |-> <<>>,
   checksum |-> got.checksum,
   access_token_hash |-> TextDigest(token)]

\* the dict job_meta of create_job_from_upload; got is what the streaming
\* loop left in size_bytes and in the sha256 object
JobMeta(id, up, got, token, now) ==
  [id |-> id,
   filename |-> OriginalName(up.filename),
   content_type |-> IF up.content_type = "" THEN "application/octet-stream" ELSE up.content_type,
   size_bytes |-> got.size_bytes,
   created_at |-> now,
   updated_at |-> now,
   started_at |-> None,
   completed_at |-> None,
   failed_at |-> None,
   status |-> QUEUED,
   progress |-> 0,
   error |-> None,
   input_uri |-> InputPath(id, OriginalName(up.filename)),
   output_uri |-> None,
   artifacts |-> <<>>,
   checksum |-> got.checksum,
   access_token_hash |-> TextDigest(HashToken(token))]

\* put() inserts at the head of the queue
QueuePut_AtHead(q, id) == <<id>> \o q

\* asyncio.Queue.put on the unbounded queue: never waits
QueuePut(q, id) == Append(q, id)

\* webapi.create_job with ConversionService.create_job_from_upload.  up is the
\* multipart part (filename, content_type, the chunks the reader returns),
\* r the secret drawn by new_token, ids the ids uuid4 can still return.
\* The response is kept with its request (req) and with the number of calls
\* of the reader the handler made (reads).  An exception the handler does not
\* catch is answered 500 by the framework.
CreateJob(up, r, ids) ==
  /\ phase # "new" /\ resp = NoResp /\ Runs(0)
  /\ IF UnsupportedMedia(up)
     THEN /\ resp' = [op |-> "create", req |-> up, status |-> 415]
          /\ UNCHANGED <<queue, unfinished, dirs, inputs, disk, pushes, issued>>
     ELSE \E id \in FreshIds(ids) :
            LET got == Ingest(up.chunks, 1, Opened, MaxBytes)
                token == NewToken(r)
                meta == JobMeta(id, up, got, token, clock)
                file == Some([name |-> InputPath(id, OriginalName(up.filename)), data |-> got.data])
            IN  /\ dirs' = dirs \cup {id}
                /\ IF ~Openable(InputPath(id, OriginalName(up.filename)))
                   THEN /\ resp' = [op |-> "create", req |-> up, status |-> 500]
                        /\ UNCHANGED <<queue, unfinished, inputs, disk, pushes, issued>>
                   ELSE IF got.ok
                   THEN /\ inputs' = [inputs EXCEPT ![id] = file]
                        /\ disk' = SaveJob(disk, meta)
                        /\ queue' = QueuePut(queue, id)
                        /\ unfinished' = unfinished + 1
                        /\ pushes' = [pushes EXCEPT ![id] = @ + 1]
                        /\ issued' = [issued EXCEPT ![id] = Some(token)]
                        /\ resp' = [op |-> "create", req |-> up, status |-> 202,
                                    reads |-> got.reads,
                                    body |-> [id |-> id, status |-> meta.status,
                                              progress |-> meta.progress, access_token |-> token,
                                              links |-> [self |-> <<"jobs", id>>,
                                                         result |-> <<"jobs", id, "result">>]]]
                   ELSE /\ inputs' = [inputs EXCEPT ![id] = AfterAbort(file)]
                        /\ resp' = [op |-> "create", req |-> up, status |-> 413,
                                    reads |-> got.reads]
                        /\ UNCHANGED <<queue, unfinished, disk, pushes, issued>>
  /\ UNCHANGED <<phase, tasks, pc, cancelReq, held, job, md, results, clock, pops>>

\* ConversionService.queue hands the queue itself to the caller of the
\* service: put_nowait(id) on it, with an id no submission created (each such
\* id once)
StrayPut(id) ==
  /\ phase # "new" /\ Runs(0)
  /\ pushes[id] = 0 /\ id \notin dirs
  /\ queue' = QueuePut(queue, id)
  /\ unfinished' = unfinished + 1
  /\ pushes' = [pushes EXCEPT ![id] = @ + 1]
  /\ resp' = NoResp
  /\ UNCHANGED <<phase, tasks, pc, cancelReq, held, job, md, dirs, inputs, disk, results,
                 clock, pops, issued>>

(* ------------------------------ workers ------------------------------- *)
\* asyncio.Queue.get on a non-empty queue: the head, and the rest
QueueHead(q) == Head(q)
\* get() hands out the head and leaves it in the queue
QueueRest_HeadKept(q) == q

QueueRest(q) == Tail(q)

\* the worker sets started_at and updated_at but leaves status as loaded
MarkRunning_StatusKept(rec, now) ==
  [rec EXCEPT !.started_at = Some(now), !.updated_at = now]

\* the worker rebuilds the record on pickup and loses the digest
MarkRunning_DigestCleared(rec, now) ==
  [rec EXCEPT !.status = RUNNING, !.started_at = Some(now), !.updated_at = now,
              !.access_token_hash = EmptyDigest]

\* the worker's first writes to the loaded record
MarkRunning(rec, now) ==
  [rec EXCEPT !.status = RUNNING, !.started_at = Some(now), !.updated_at = now]

\* the worker marks success without recording where the result is
MarkSucceeded_NoOutputUri(rec, id, now) ==
  [rec EXCEPT !.progress = 100, !.status = SUCCEEDED,
              !.completed_at = Some(now), !.updated_at = now]

\* the worker marks success without a completion time
MarkSucceeded_NoCompletedAt(rec, id, now) ==
  [rec EXCEPT !.progress = 100, !.output_uri = Some(ResultPath(id)), !.status = SUCCEEDED,
              !.updated_at = now]

\* the worker marks success and leaves progress as it was
MarkSucceeded_ProgressKept(rec, id, now) ==
  [rec EXCEPT !.output_uri = Some(ResultPath(id)), !.status = SUCCEEDED,
              !.completed_at = Some(now), !.updated_at = now]

\* the success save rebuilds the record and loses when the job started
MarkSucceeded_StartCleared(rec, id, now) ==
  [rec EXCEPT !.progress = 100, !.output_uri = Some(ResultPath(id)), !.status = SUCCEEDED,
              !.completed_at = Some(now), !.updated_at = now, !.started_at = None]

\* the worker's writes to the record it holds, after the result was written
MarkSucceeded(rec, id, now) ==
  [rec EXCEPT !.progress = 100, !.output_uri = Some(ResultPath(id)), !.status = SUCCEEDED,
              !.completed_at = Some(now), !.updated_at = now]

\* the running record is kept in memory and saved only with the terminal state
PersistRunning_Deferred(d, rec) == d

\* save_job(job) right after the running fields are assigned, before any await
PersistRunning(d, rec) == SaveJob(d, rec)

\* the iteration ends without task_done()
EndIteration_NoTaskDone(w) ==
  /\ unfinished' = unfinished
  /\ pc' = [pc EXCEPT ![w] = "get"]
  /\ held' = [held EXCEPT ![w] = None]
  /\ job' = [job EXCEPT ![w] = None]
  /\ md' = [md EXCEPT ![w] = None]

\* the loop body runs once: after task_done() the coroutine returns
EndIteration_Return(w) ==
  /\ unfinished' = unfinished - 1
  /\ pc' = [pc EXCEPT ![w] = "ended"]
  /\ held' = [held EXCEPT ![w] = None]
  /\ job' = [job EXCEPT ![w] = None]
  /\ md' = [md EXCEPT ![w] = None]

\* the end of an iteration: finally task_done(), then back to queue.get()
EndIteration(w) ==
  /\ unfinished' = unfinished - 1
  /\ pc' = [pc EXCEPT ![w] = "get"]
  /\ held' = [held EXCEPT ![w] = None]
  /\ job' = [job EXCEPT ![w] = None]
  /\ md' = [md EXCEPT ![w] = None]

\* the except branch re-raises: finally runs and the exception leaves the loop
ExceptBranch_Reraise(w) ==
  /\ unfinished' = unfinished - 1
  /\ pc' = [pc EXCEPT ![w] = "crashed"]
  /\ held' = [held EXCEPT ![w] = None]
  /\ job' = [job EXCEPT ![w] = None]
  /\ md' = [md EXCEPT ![w] = None]

\* where control goes once the except branch has run: nothing is re-raised,
\* finally runs and the loop goes on
ExceptBranch(w) == EndIteration(w)

\* _worker_loop from the return of queue.get() to the await of the converter
\* thread.  fault: "none", or the call that raises ("load": load_job, as it
\* does when it finds no record; "save": save_job of the running record;
\* "mkdir": output_dir.mkdir); recOk: whether the except branch manages to
\* persist the failure.
WorkerGet(w, fault, recOk) ==
  /\ w \in tasks /\ pc[w] = "get" /\ ~cancelReq[w] /\ Runs(w)
  /\ queue # <<>>
  /\ LET id == QueueHead(queue)
         loaded == LoadJob(disk, id)
         running == MarkRunning(Val(loaded), clock)
     IN  /\ queue' = QueueRest(queue)
         /\ pops' = [pops EXCEPT ![id] = @ + 1]
         /\ IF loaded = None
            THEN /\ disk' = RecordFailure(disk, id, "job not found", clock, recOk)
                 /\ ExceptBranch(w)
            ELSE IF fault = "load"
            THEN /\ disk' = RecordFailure(disk, id, "load failed", clock, recOk)
                 /\ ExceptBranch(w)
            ELSE IF fault = "save"
            THEN /\ disk' = RecordFailure(disk, id, "save failed", clock, recOk)
                 /\ ExceptBranch(w)
            ELSE IF fault = "mkdir"
            THEN /\ disk' = RecordFailure(PersistRunning(disk, running), id, "mkdir failed", clock, recOk)
                 /\ ExceptBranch(w)
            ELSE /\ disk' = PersistRunning(disk, running)
                 /\ pc' = [pc EXCEPT ![w] = "convert"]
                 /\ held' = [held EXCEPT ![w] = Some(id)]
                 /\ job' = [job EXCEPT ![w] = Some(running)]
                 /\ UNCHANGED <<md, unfinished>>
  /\ resp' = NoResp
  /\ UNCHANGED <<phase, tasks, cancelReq, dirs, inputs, results, clock, pushes, issued>>

\* the converter thread returns text: the worker starts the write_output thread
ConvertReturns(w, text) ==
  /\ w \in tasks /\ pc[w] = "convert" /\ ~cancelReq[w] /\ Runs(w)
  /\ md' = [md EXCEPT ![w] = Some(text)]
  /\ pc' = [pc EXCEPT ![w] = "write"]
  /\ resp' = NoResp
  /\ UNCHANGED <<phase, tasks, cancelReq, held, job, queue, unfinished, dirs, inputs, disk,
                 results, clock, pushes, pops, issued>>

\* the converter raises: except branch, finally, next iteration
ConvertRaises(w, recOk) ==
  /\ w \in tasks /\ pc[w] = "convert" /\ ~cancelReq[w] /\ Runs(w)
  /\ disk' = RecordFailure(disk, Val(held[w]), "conversion failed", clock, recOk)
  /\ ExceptBranch(w)
  /\ resp' = NoResp
  /\ UNCHANGED <<phase, tasks, cancelReq, queue, dirs, inputs, results, clock, pushes, pops, issued>>

\* write_output returned: the held record is marked succeeded and saved
\* (saveOk: whether that save_job returns)
WriteReturns(w, saveOk, recOk) ==
  /\ w \in tasks /\ pc[w] = "write" /\ ~cancelReq[w] /\ Runs(w)
  /\ LET id == Val(held[w])
     IN  /\ results' = [results EXCEPT ![id] = Some(WriteText(Val(md[w])))]
         /\ disk' = IF saveOk
                    THEN SaveJob(disk, MarkSucceeded(Val(job[w]), id, clock))
                    ELSE RecordFailure(disk, id, "save failed", clock, recOk)
         /\ IF saveOk THEN EndIteration(w) ELSE ExceptBranch(w)
  /\ resp' = NoResp
  /\ UNCHANGED <<phase, tasks, cancelReq, queue, dirs, inputs, clock, pushes, pops, issued>>

\* write_output raises; the file it opened may be left behind, truncated
WriteRaises(w, left, recOk) ==
  /\ w \in tasks /\ pc[w] = "write" /\ ~cancelReq[w] /\ Runs(w)
  /\ LET id == Val(held[w])
     IN  /\ results' = [results EXCEPT ![id] = IF left THEN Some(<<>>) ELSE @]
         /\ disk' = RecordFailure(disk, id, "write failed", clock, recOk)
  /\ ExceptBranch(w)
  /\ resp' = NoResp
  /\ UNCHANGED <<phase, tasks, cancelReq, queue, dirs, inputs, clock, pushes, pops, issued>>

\* queue.get() is awaited inside the try: finally runs wherever the worker
\* is cancelled
AcksOnCancel_Always(at) == 1

\* the task_done() calls made when CancelledError is raised at the await
\* the worker is suspended in: 'await self._queue.get()' stands before the
\* try, the two to_thread awaits stand inside it
AcksOnCancel(at) == IF at = "get" THEN 0 ELSE 1

\* CancelledError is delivered at the await the worker is suspended in.  It
\* is no Exception: the except branch is skipped, finally runs inside the
\* try, and the loop ends.  A write_output thread already started runs on
\* (wrote: it completed its write).
Cancelled(w, wrote) ==
  /\ w \in tasks /\ cancelReq[w] /\ pc[w] \in {"get", "convert", "write"} /\ Runs(w)
  /\ cancelReq' = [cancelReq EXCEPT ![w] = FALSE]
  /\ pc' = [pc EXCEPT ![w] = "ended"]
  /\ unfinished' = unfinished - AcksOnCancel(pc[w])
  /\ results' = IF pc[w] = "write" /\ wrote
                THEN [results EXCEPT ![Val(held[w])] = Some(WriteText(Val(md[w])))] ELSE results
  /\ resp' = NoResp
  /\ UNCHANGED <<phase, tasks, held, job, md, queue, dirs, inputs, disk, clock,
                 pushes, pops, issued>>

(* ------------------------------ read API ------------------------------ *)
\* An Authorization header: None when absent, else its scheme (lower-cased),
\* the credential text (None when nothing follows the scheme) and the
\* number of "=" that trail it.
Header(scheme, text, pad) == Some([scheme |-> scheme, text |-> text, pad |-> pad])

\* the length of the token is not checked
ValidateBearerToken_NoLength(h) ==
  IF h = None THEN None
  ELSE LET a == Val(h)
       IN  IF a.scheme # "bearer" \/ a.text = None THEN None
           ELSE IF Val(a.text).junk > 0 \/ Val(a.text).len = 0 \/ a.pad > 2 THEN None
           ELSE a.text

\* webapi._validate_bearer_token: the token, or None where it raises 401
ValidateBearerToken(h) ==
  IF h = None THEN None
  ELSE LET a == Val(h)
       IN  IF a.scheme # "bearer" \/ a.text = None THEN None
           ELSE IF Val(a.text).junk > 0 \/ Val(a.text).len = 0 \/ a.pad > 2 THEN None
           ELSE IF Val(a.text).len # TOKEN_LEN THEN None
           ELSE a.text

\* the comparison is lost: every well-formed token passes
VerifyToken_Always(rec, token) == TRUE

\* ConversionService.verify_token
VerifyToken(rec, token) == Verify(rec.access_token_hash, token)

\* the absence of the digest is not looked at
LacksDigest_Never(rec) == FALSE

\* 'not job.get("access_token_hash")'
LacksDigest(rec) == rec.access_token_hash.kind = "empty"

\* the record is returned as loaded
Redacted_Nothing(rec) == rec

\* the dict get_job returns: every key but access_token_hash
Redacted(rec) == [k \in (DOMAIN rec) \ {"access_token_hash"} |-> rec[k]]

\* f"{tok[:4]}..{tok[-4:]}": eight characters of the presented token; here
\* what they determine of its content and of its last character
Fingerprint(t) == [of |-> t.body, last |-> t.slack]

\* webapi._auth_debug_headers, sent when DEBUG_AUTH is on (debug); None otherwise
AuthDebugHeaders(debug, token, rec) ==
  IF debug
  THEN Some([length |-> token.len,
             fingerprint |-> Fingerprint(token),
             has_token_hash |-> ~LacksDigest(rec),
             job_id |-> rec.id,
             data_dir |-> "DATA_DIR"])
  ELSE None

\* a response with its request: the job id and the Authorization header
\* asked with, the HTTP status, the code of the error detail, the content
\* and the X-Auth-* headers
Reply(op, id, h, status, code, body, headers) ==
  [op |-> op, id |-> id, hdr |-> h, status |-> status, code |-> code, body |-> body,
   headers |-> headers]

\* a token that does not verify is answered like a malformed one
Gate_MismatchUnauthorized(op, id, h, debug) ==
  LET token == ValidateBearerToken(h)
      rec == LoadJob(disk, id)
  IN  IF token = None THEN Some(Reply(op, id, h, 401, "unauthorized", None, None))
      ELSE IF rec = None THEN Some(Reply(op, id, h, 404, "not_found", None, None))
      ELSE IF LacksDigest(Val(rec))
      THEN Some(Reply(op, id, h, 423, "not_ready", None, AuthDebugHeaders(debug, Val(token), Val(rec))))
      ELSE IF ~VerifyToken(Val(rec), Val(token))
      THEN Some(Reply(op, id, h, 401, "unauthorized", None, AuthDebugHeaders(debug, Val(token), Val(rec))))
      ELSE None

\* FileNotFoundError is not caught apart: an unknown id is answered like a
\* token that does not verify
Gate_MissingForbidden(op, id, h, debug) ==
  LET token == ValidateBearerToken(h)
      rec == LoadJob(disk, id)
  IN  IF token = None THEN Some(Reply(op, id, h, 401, "unauthorized", None, None))
      ELSE IF rec = None THEN Some(Reply(op, id, h, 403, "forbidden", None, None))
      ELSE IF LacksDigest(Val(rec))
      THEN Some(Reply(op, id, h, 423, "not_ready", None, AuthDebugHeaders(debug, Val(token), Val(rec))))
      ELSE IF ~VerifyToken(Val(rec), Val(token))
      THEN Some(Reply(op, id, h, 403, "forbidden", None, AuthDebugHeaders(debug, Val(token), Val(rec))))
      ELSE None

\* the checks get_job and get_result share: the error reply, or None to go on
Gate(op, id, h, debug) ==
  LET token == ValidateBearerToken(h)
      rec == LoadJob(disk, id)
  IN  IF token = None THEN Some(Reply(op, id, h, 401, "unauthorized", None, None))
      ELSE IF rec = None THEN Some(Reply(op, id, h, 404, "not_found", None, None))
      ELSE IF LacksDigest(Val(rec))
      THEN Some(Reply(op, id, h, 423, "not_ready", None, AuthDebugHeaders(debug, Val(token), Val(rec))))
      ELSE IF ~VerifyToken(Val(rec), Val(token))
      THEN Some(Reply(op, id, h, 403, "forbidden", None, AuthDebugHeaders(debug, Val(token), Val(rec))))
      ELSE None

\* webapi.get_job
GetJobReply(id, h, debug) ==
  IF Gate("status", id, h, debug) # None THEN Val(Gate("status", id, h, debug))
  ELSE LET rec == Val(LoadJob(disk, id))
       IN  Reply("status", id, h, 200, "ok", Some(Redacted(rec)),
                 AuthDebugHeaders(debug, Val(ValidateBearerToken(h)), rec))

\* the file is read without asking whether the job has a result
GetResultReply_NoReadiness(id, h, debug) ==
  IF Gate("result", id, h, debug) # None THEN Val(Gate("result", id, h, debug))
  ELSE LET rec == Val(LoadJob(disk, id))
           hs == AuthDebugHeaders(debug, Val(ValidateBearerToken(h)), rec)
       IN  Reply("result", id, h, 200, "ok",
                 IF results[id] = None THEN None ELSE Some(ReadText(Val(results[id]))), hs)

\* webapi.get_result
GetResultReply(id, h, debug) ==
  IF Gate("result", id, h, debug) # None THEN Val(Gate("result", id, h, debug))
  ELSE LET rec == Val(LoadJob(disk, id))
           hs == AuthDebugHeaders(debug, Val(ValidateBearerToken(h)), rec)
       IN  IF rec.output_uri = None \/ results[id] = None
           THEN Reply("result", id, h, 404, "not_ready", None, hs)
           ELSE Reply("result", id, h, 200, "ok", Some(ReadText(Val(results[id]))), hs)

GetJob(id, h, debug) ==
  /\ phase # "new" /\ resp = NoResp /\ Runs(0)
  /\ resp' = GetJobReply(id, h, debug)
  /\ UNCHANGED <<phase, tasks, pc, cancelReq, held, job, md, queue, unfinished, dirs, inputs,
                 disk, results, clock, pushes, pops, issued>>

\* the result file is removed once it has been served
AfterRead_Consumed(res, id) == [res EXCEPT ![id] = None]

\* the result files after get_result has read one: it is opened for reading
\* inside 'with' and closed
AfterRead(res, id) == res

GetResult(id, h, debug) ==
  /\ phase # "new" /\ resp = NoResp /\ Runs(0)
  /\ resp' = GetResultReply(id, h, debug)
  /\ results' = IF GetResultReply(id, h, debug).status = 200 THEN AfterRead(results, id) ELSE results
  /\ UNCHANGED <<phase, tasks, pc, cancelReq, held, job, md, queue, unfinished, dirs, inputs,
                 disk, clock, pushes, pops, issued>>

(* --------------------------- specification ---------------------------- *)
\* Orchestration: the queue, the pool, the record state machine, storage
\* faults and shutdown.  No branch of the worker loop or of the lifecycle
\* reads the upload's bytes, the secret, the converter's text or the clock,
\* so one value of each is drawn here; the data-rich specifications below
\* vary them.
CoreUploads ==
  {[filename |-> <<"a", ".", "pdf">>, content_type |-> "application/pdf", chunks |-> <<<<0>>, <<1>>>>]}
CoreSecrets == {0}
CoreMarkdowns == {<<"# a">>}
Faults == {"none", "load", "save", "mkdir"}

Next ==
  \/ Startup
  \/ Shutdown
  \/ Sent
  \/ \E up \in CoreUploads, r \in CoreSecrets : CreateJob(up, r, JobIds)
  \/ \E w \in WorkerIds, fault \in Faults, recOk \in BOOLEAN : WorkerGet(w, fault, recOk)
  \/ \E w \in WorkerIds, text \in CoreMarkdowns : ConvertReturns(w, text)
  \/ \E w \in WorkerIds, recOk \in BOOLEAN : ConvertRaises(w, recOk)
  \/ \E w \in WorkerIds, saveOk \in BOOLEAN, recOk \in BOOLEAN : WriteReturns(w, saveOk, recOk)
  \/ \E w \in WorkerIds, left \in BOOLEAN, recOk \in BOOLEAN : WriteRaises(w, left, recOk)
  \/ \E w \in WorkerIds, wrote \in BOOLEAN : Cancelled(w, wrote)

Spec == Init /\ [][Next]_vars

\* The read API over running jobs: secrets, texts and credentials vary; the
\* workers run without storage faults.  DEBUG_AUTH is read once when the
\* module is imported; drawing it per request includes the runs with either
\* setting.
ApiJobs == 1..MaxApiJobs
\* the ids clients ask for: those of jobs, and one that is never allocated
AskedIds == 1..(MaxApiJobs + 1)
ApiMarkdowns == {<<"# a">>, <<"# b">>}
Secrets == 0..(MaxRaw - 1)

\* credentials a client can present: the encoding of a secret, the same
\* with the spare bits of its last character set, with a character more or
\* less, with a character outside the alphabet, with "=" appended
Credentials ==
  UNION {{NewToken(r),
          Text(TOKEN_LEN, r, 1, 0),
          Text(TOKEN_LEN - 1, r, 0, 0),
          Text(TOKEN_LEN + 1, r, 0, 1)} : r \in Secrets}
Headers ==
  {None, Header("bearer", None, 0)}
  \cup {Header("bearer", Some(t), 0) : t \in Credentials}
  \cup {Header(sp[1], Some(NewToken(0)), sp[2]) : sp \in {<<"basic", 0>>, <<"bearer", 1>>, <<"bearer", 3>>}}

NextApi ==
  \/ Startup
  \/ Sent
  \/ \E up \in CoreUploads, r \in Secrets : CreateJob(up, r, ApiJobs)
  \/ \E w \in WorkerIds : WorkerGet(w, "none", TRUE)
  \/ \E w \in WorkerIds, text \in ApiMarkdowns : ConvertReturns(w, text)
  \/ \E w \in WorkerIds : ConvertRaises(w, TRUE)
  \/ \E w \in WorkerIds : WriteReturns(w, TRUE, TRUE)
  \/ \E id \in AskedIds, h \in Headers, debug \in BOOLEAN : GetJob(id, h, debug)
  \/ \E id \in AskedIds, h \in Headers, debug \in BOOLEAN : GetResult(id, h, debug)

SpecApi == Init /\ [][NextApi]_vars
\* A started service that is not stopped.  The event loop resumes every
\* worker that can run, every to_thread call returns or raises, and a
\* failure is recorded when the except branch runs (storage may still fail
\* on the saves of the try block).
WorkerStep(w) ==
  \/ \E fault \in Faults : WorkerGet(w, fault, TRUE)
  \/ \E text \in CoreMarkdowns : ConvertReturns(w, text)
  \/ ConvertRaises(w, TRUE)
  \/ \E saveOk \in BOOLEAN : WriteReturns(w, saveOk, TRUE)
  \/ \E left \in BOOLEAN : WriteRaises(w, left, TRUE)

NextLive ==
  \/ Startup
  \/ Sent
  \/ \E up \in CoreUploads, r \in CoreSecrets : CreateJob(up, r, JobIds)
  \/ \E w \in WorkerIds : WorkerStep(w)

SpecLive == Init /\ [][NextLive]_vars /\ \A w \in WorkerIds : WF_vars(WorkerStep(w))

\* The read API over a data directory that already holds records when the
\* process starts: job.json files of earlier runs, with the digest of this
\* version, with a legacy argon2 digest, or with none.  The queue starts
\* empty, so these records stay as they are.
StoredIds == ApiJobs
StoredUpload == CHOOSE up \in CoreUploads : TRUE
StoredDigests ==
  {EmptyDigest,
   TextDigest(HashToken(NewToken(0))),
   LegacyDigest(Bytes(TOKEN_BYTES, 0))}

\* the record of job id as an earlier run left it in the given status
StoredRecord(id, status, digest) ==
  LET meta == [JobMeta(id, StoredUpload, Ingest(StoredUpload.chunks, 1, Opened, MaxBytes), NewToken(0), 0) EXCEPT !.access_token_hash = digest]
  IN  CASE status = QUEUED -> meta
        [] status = RUNNING -> MarkRunning(meta, 0)
        [] status = SUCCEEDED -> MarkSucceeded(MarkRunning(meta, 0), id, 0)
        [] status = FAILED -> [MarkRunning(meta, 0) EXCEPT !.status = FAILED,
                                                          !.error = Some("conversion failed"),
                                                          !.failed_at = Some(0)]

StoredRecords(id) ==
  {StoredRecord(id, st, dg) : st \in {QUEUED, RUNNING, SUCCEEDED, FAILED}, dg \in StoredDigests}

InitStored ==
  /\ phase = "new"
  /\ tasks = {}
  /\ pc = [w \in WorkerIds |-> "none"]
  /\ cancelReq = [w \in WorkerIds |-> FALSE]
  /\ held = [w \in WorkerIds |-> None]
  /\ job = [w \in WorkerIds |-> None]
  /\ md = [w \in WorkerIds |-> None]
  /\ queue = <<>>
  /\ unfinished = 0
  /\ dirs = StoredIds
  /\ inputs = [j \in JobIds |->
                 IF j \in StoredIds
                 THEN Some([name |-> InputPath(j, StoredUpload.filename), data |-> <<0, 1>>])
                 ELSE None]
  /\ \E recs \in [StoredIds -> UNION {StoredRecords(j) : j \in StoredIds}] :
       /\ \A j \in StoredIds : recs[j] \in StoredRecords(j)
       /\ disk = [store |-> [j \in JobIds |-> IF j \in StoredIds THEN Some(recs[j]) ELSE None],
                  log |-> [j \in JobIds |-> <<>>]]
       /\ results = [j \in JobIds |->
                       IF j \in StoredIds /\ recs[j].status = SUCCEEDED THEN Some(<<"# a">>) ELSE None]
  /\ clock = 0
  /\ resp = NoResp
  /\ pushes = [j \in JobIds |-> 0]
  /\ pops = [j \in JobIds |-> 0]
  /\ issued = [j \in JobIds |-> None]

NextStored ==
  \/ Startup
  \/ Sent
  \/ \E id \in AskedIds, h \in Headers, debug \in BOOLEAN : GetJob(id, h, debug)
  \/ \E id \in AskedIds, h \in Headers, debug \in BOOLEAN : GetResult(id, h, debug)

SpecStored == InitStored /\ [][NextStored]_vars

\* Uploads of every size around the limit.  Chunk(n) is a chunk of n bytes as
\* UploadFile.read returns it; an empty chunk is the end of the stream.
Chunk(n) == [k \in 1..n |-> 0]

ChunkSizes == 0..(MaxBytes + 1)

SizedUploads ==
  {[filename |-> <<"a", ".", "pdf">>, content_type |-> "application/pdf",
    chunks |-> <<Chunk(a), Chunk(b)>>] : a, b \in ChunkSizes}
  \cup {[filename |-> <<"a", ".", "exe">>, content_type |-> "application/x-msdownload",
         chunks |-> <<Chunk(1)>>]}

UploadIds == 1..(MaxApiJobs + 1)

\* POST /jobs alone: the service is started, uploads arrive and are answered.
NextUpload ==
  \/ Startup
  \/ Sent
  \/ \E up \in SizedUploads, r \in Secrets : CreateJob(up, r, UploadIds)

SpecUpload == Init /\ [][NextUpload]_vars

\* Uploads told apart by their bytes: two chunks, each any string of at most
\* MaxBytes bytes over two byte values.
ByteValues == {0, 1}

ByteStrings(n) == UNION {[1..k -> ByteValues] : k \in 0..n}

ByteUploads ==
  {[filename |-> <<"a", ".", "pdf">>, content_type |-> "application/pdf",
    chunks |-> <<a, b>>] : a, b \in ByteStrings(MaxBytes)}

\* Uploads told apart by the name the client declares: plain names, names
\* with several dots, with none, the empty name, the name the service itself
\* would choose, names with path separators and ".." before and after
\* their last dot.
DeclaredNames ==
  {<<"a", ".", "pdf">>,
   <<"a", ".", "tar", ".", "pdf">>,
   <<"a">>,
   <<>>,
   <<"a", ".">>,
   <<"original", ".", "pdf">>,
   <<"original">>,
   <<"/", "etc", "/", "a", ".", "pdf">>,
   <<".", ".", "/", ".", ".", "/", "etc", "/", "passwd">>,
   <<".", ".", "/", "a", ".", "pdf">>,
   <<"a", ".", "pdf", "/", ".", ".", "/", "x">>,
   <<"a", ".", "b", "/", "c">>,
   <<"a", ".", "/">>}

NamedUploads ==
  {[filename |-> n, content_type |-> "application/pdf", chunks |-> <<Chunk(1)>>] :
     n \in DeclaredNames}

\* Uploads told apart by what the client says they are: a content type that
\* is allowed, one that is not, the type clients send for anything, and no
\* type at all; a name with a supported extension, with another, with none.
DeclaredTypes == {"", "application/pdf", "text/plain", "application/octet-stream"}

TypedUploads ==
  {[filename |-> n, content_type |-> ct, chunks |-> <<Chunk(1)>>] :
     n \in {<<"a", ".", "pdf">>, <<"a", ".", "exe">>, <<"a">>}, ct \in DeclaredTypes}

IntakeUploads == ByteUploads \cup NamedUploads \cup TypedUploads

\* POST /jobs over uploads of every content, name and type
NextIntake ==
  \/ Startup
  \/ Sent
  \/ \E up \in IntakeUploads, r \in CoreSecrets : CreateJob(up, r, UploadIds)

SpecIntake == Init /\ [][NextIntake]_vars

\* Token texts around the length new_token produces: the empty text, one
\* character, a character less or more than 43, four characters more;
\* with and without spare bits set in the last character, with none, one
\* or four characters outside the alphabet.
CodecLens == {1, TOKEN_LEN - 1, TOKEN_LEN, TOKEN_LEN + 1, TOKEN_LEN + 4}

CodecTexts ==
  {Text(0, 0, 0, 0)}
  \cup {t \in {Text(len, body, slack, junk) :
                 len \in CodecLens, body \in Secrets, slack \in {0, 1}, junk \in {0, 1, 4}} :
          /\ t.junk <= t.len
          /\ t.slack = 1 => ((t.len - t.junk) * 6) % 8 # 0
          /\ t.body # 0 => ((t.len - t.junk) * 6) \div 8 > 0}

Decodable == {t \in CodecTexts : B64UrlToBytes(t) # None}

\* stored digest strings: "", legacy PHC strings, digests hash_token made,
\* and a token text stored in place of its digest
CodecDigests ==
  {EmptyDigest}
  \cup {LegacyDigest(Bytes(TOKEN_BYTES, r)) : r \in Secrets}
  \cup {TextDigest(HashToken(t)) : t \in Decodable}
  \cup {TextDigest(NewToken(r)) : r \in Secrets}

\* a caller of the security gateway: hash_token(t)
CallHashToken(t) ==
  /\ resp' = [op |-> "hash_token", token |-> t, out |-> HashTokenCall(t)]
  /\ UNCHANGED <<phase, tasks, pc, cancelReq, held, job, md, queue, unfinished, dirs,
                 inputs, disk, results, clock, pushes, pops, issued>>

\* a caller of the security gateway: verify(phc, t)
CallVerify(phc, t) ==
  /\ resp' = [op |-> "verify", phc |-> phc, token |-> t, out |-> VerifyCall(phc, t)]
  /\ UNCHANGED <<phase, tasks, pc, cancelReq, held, job, md, queue, unfinished, dirs,
                 inputs, disk, results, clock, pushes, pops, issued>>

NextCodec ==
  \/ \E t \in CodecTexts : CallHashToken(t)
  \/ \E phc \in CodecDigests, t \in CodecTexts : CallVerify(phc, t)

SpecCodec == Init /\ [][NextCodec]_vars

\* The whole life of a job with the wall clock running: the clock may
\* advance between any two segments of the event loop.
NextTimed ==
  \/ Startup
  \/ Shutdown
  \/ Sent
  \/ Tick
  \/ \E up \in CoreUploads, r \in CoreSecrets : CreateJob(up, r, ApiJobs)
  \/ \E w \in WorkerIds, fault \in Faults, recOk \in BOOLEAN : WorkerGet(w, fault, recOk)
  \/ \E w \in WorkerIds, text \in CoreMarkdowns : ConvertReturns(w, text)
  \/ \E w \in WorkerIds, recOk \in BOOLEAN : ConvertRaises(w, recOk)
  \/ \E w \in WorkerIds, saveOk \in BOOLEAN, recOk \in BOOLEAN : WriteReturns(w, saveOk, recOk)
  \/ \E w \in WorkerIds, left \in BOOLEAN, recOk \in BOOLEAN : WriteRaises(w, left, recOk)
  \/ \E w \in WorkerIds, wrote \in BOOLEAN : Cancelled(w, wrote)

SpecTimed == Init /\ [][NextTimed]_vars

\* Markdown texts told apart by their line ends: none, LF, CR LF, a lone CR
ResultMarkdowns ==
  {<<"a">>, <<"a", LF, "b">>, <<"a", CR, LF, "b">>, <<"a", CR, "b">>, <<>>}

\* what a client of the result endpoint presents: the token of a secret, or nothing
ResultHeaders == {None} \cup {Header("bearer", Some(NewToken(r)), 0) : r \in Secrets}

\* a job from its creation to the read of its result
NextResult ==
  \/ Startup
  \/ Sent
  \/ \E up \in CoreUploads, r \in CoreSecrets : CreateJob(up, r, ApiJobs)
  \/ \E w \in WorkerIds : WorkerGet(w, "none", TRUE)
  \/ \E w \in WorkerIds, text \in ResultMarkdowns : ConvertReturns(w, text)
  \/ \E w \in WorkerIds : ConvertRaises(w, TRUE)
  \/ \E w \in WorkerIds, saveOk \in BOOLEAN : WriteReturns(w, saveOk, TRUE)
  \/ \E w \in WorkerIds, left \in BOOLEAN : WriteRaises(w, left, TRUE)
  \/ \E id \in AskedIds, h \in ResultHeaders : GetResult(id, h, FALSE)

SpecResult == Init /\ [][NextResult]_vars

\* Several jobs at once: submissions, a pool of workers and the status reads
\* of the jobs' owner, one coroutine at a time on the event loop; the
\* storage calls return.
PoolJobs == 1..(MaxApiJobs + 2)
\* the owner presents the token the creation response carried
OwnerHeaders == {Header("bearer", Some(NewToken(r)), 0) : r \in CoreSecrets}

NextPool ==
  \/ Startup
  \/ Sent
  \/ \E up \in CoreUploads, r \in CoreSecrets : CreateJob(up, r, PoolJobs)
  \/ \E w \in WorkerIds : WorkerGet(w, "none", TRUE)
  \/ \E w \in WorkerIds, text \in CoreMarkdowns : ConvertReturns(w, text)
  \/ \E w \in WorkerIds : ConvertRaises(w, TRUE)
  \/ \E w \in WorkerIds : WriteReturns(w, TRUE, TRUE)
  \/ \E id \in PoolJobs, h \in OwnerHeaders : GetJob(id, h, FALSE)

SpecPool == Init /\ [][NextPool]_vars

\* Queue entries that no submission made: the caller of the service puts
\* ids of no job on the queue it is handed, among the submissions; the
\* workers run with and without storage faults.
StrayIds == PoolJobs \ ApiJobs

NextStray ==
  \/ Startup
  \/ Sent
  \/ \E up \in CoreUploads, r \in CoreSecrets : CreateJob(up, r, ApiJobs)
  \/ \E id \in StrayIds : StrayPut(id)
  \/ \E w \in WorkerIds, fault \in Faults, recOk \in BOOLEAN : WorkerGet(w, fault, recOk)
  \/ \E w \in WorkerIds, text \in CoreMarkdowns : ConvertReturns(w, text)
  \/ \E w \in WorkerIds, recOk \in BOOLEAN : ConvertRaises(w, recOk)
  \/ \E w \in WorkerIds : WriteReturns(w, TRUE, TRUE)
  \/ \E id \in PoolJobs, h \in OwnerHeaders : GetJob(id, h, FALSE)

SpecStray == Init /\ [][NextStray]_vars

\* A service that is not stopped, with one job more than the pool has
\* workers and the wall clock running: converter calls may return, raise,
\* or stay pending while time passes.
NextHung ==
  \/ Startup
  \/ Sent
  \/ Tick
  \/ \E up \in CoreUploads, r \in CoreSecrets : CreateJob(up, r, PoolJobs)
  \/ \E w \in WorkerIds : WorkerGet(w, "none", TRUE)
  \/ \E w \in WorkerIds, text \in CoreMarkdowns : ConvertReturns(w, text)
  \/ \E w \in WorkerIds : ConvertRaises(w, TRUE)
  \/ \E w \in WorkerIds : WriteReturns(w, TRUE, TRUE)

SpecHung == Init /\ [][NextHung]_vars

\* Shutdown among several jobs: stop() may come while workers wait on the
\* queue, are inside a converter call or write a result; the storage calls
\* return.
NextStop ==
  \/ Startup
  \/ Shutdown
  \/ Sent
  \/ \E up \in CoreUploads, r \in CoreSecrets : CreateJob(up, r, PoolJobs)
  \/ \E w \in WorkerIds : WorkerGet(w, "none", TRUE)
  \/ \E w \in WorkerIds, text \in CoreMarkdowns : ConvertReturns(w, text)
  \/ \E w \in WorkerIds : ConvertRaises(w, TRUE)
  \/ \E w \in WorkerIds : WriteReturns(w, TRUE, TRUE)
  \/ \E w \in WorkerIds, wrote \in BOOLEAN : Cancelled(w, wrote)

SpecStop == Init /\ [][NextStop]_vars

(* ------------------------------- claims ------------------------------- *)
\* the statuses the state machine ends in
Terminal == {SUCCEEDED, FAILED}
\* the jobs whose record create_job_from_upload persisted
Created == {j \in JobIds : disk.store[j] # None}
StatusOf(j) == Val(disk.store[j]).status
\* the statuses persisted for job j, oldest first
Persisted(j) == disk.log[j]
IsPrefix(s, t) == Len(s) <= Len(t) /\ \A i \in 1..Len(s) : s[i] = t[i]
\* worker w is between its dequeue and the end of that iteration
Working(w) == w \in tasks /\ pc[w] \in {"convert", "write"}

\* C1 as stated: the statuses persisted for a job follow queued -> running ->
\* succeeded or queued -> running -> failed, and nothing else (no queued ->
\* failed).
C1_AsClaimed ==
  \A j \in JobIds :
    \/ IsPrefix(Persisted(j), <<QUEUED, RUNNING, SUCCEEDED>>)
    \/ IsPrefix(Persisted(j), <<QUEUED, RUNNING, FAILED>>)

\* C1, amended: the statuses persisted for a job are a prefix of queued ->
\* running -> succeeded or of queued -> running -> failed, or are queued ->
\* failed; queued -> failed is written only by the iteration that dequeued
\* the job, before it calls the converter; succeeded is written only after
\* the converter call returned; when the converter call raises, failed is
\* the only status that can follow running.  No status follows succeeded or
\* failed and queued never comes back.
C1_Sequences ==
  {<<>>, <<QUEUED>>, <<QUEUED, RUNNING>>, <<QUEUED, RUNNING, SUCCEEDED>>,
   <<QUEUED, RUNNING, FAILED>>, <<QUEUED, FAILED>>}
C1_Transitions ==
  /\ [](\A j \in JobIds : Persisted(j) \in C1_Sequences)
  /\ [][\A j \in JobIds :
          /\ (Persisted(j) = <<QUEUED>> /\ disk'.log[j] = <<QUEUED, FAILED>>)
               => (queue # <<>> /\ QueueHead(queue) = j /\ pops'[j] = pops[j] + 1)
          /\ (Persisted(j) # disk'.log[j] /\ disk'.log[j] = <<QUEUED, RUNNING, SUCCEEDED>>)
               => (\E w \in WorkerIds : pc[w] = "write" /\ held[w] = Some(j))
          /\ (\E w \in WorkerIds : pc[w] = "convert" /\ held[w] = Some(j) /\ pc'[w] = "get")
               => disk'.log[j] \in {<<QUEUED, RUNNING>>, <<QUEUED, RUNNING, FAILED>>}]_vars

\* all three complete sequences have been persisted, one job each
C1_Witness ==
  \E a, b, c \in JobIds :
    /\ Persisted(a) = <<QUEUED, RUNNING, SUCCEEDED>>
    /\ Persisted(b) = <<QUEUED, RUNNING, FAILED>>
    /\ Persisted(c) = <<QUEUED, FAILED>>

\* C2: every persisted record is succeeded with output_uri set and error
\* null, or failed with error set and output_uri null, or queued or running
\* with both null.
C2_RecordShape ==
  \A j \in Created :
    LET rec == Val(disk.store[j])
    IN  \/ rec.status = SUCCEEDED /\ rec.output_uri # None /\ rec.error = None
        \/ rec.status = FAILED /\ rec.error # None /\ rec.output_uri = None
        \/ rec.status \in {QUEUED, RUNNING} /\ rec.output_uri = None /\ rec.error = None

\* a succeeded record beside a failed one whose result file was written
\* before the save of its success raised
C2_Witness ==
  \E a, b \in Created :
    /\ StatusOf(a) = SUCCEEDED
    /\ StatusOf(b) = FAILED /\ results[b] # None /\ Val(disk.store[b]).error = Some("save failed")

\* the number of entries of q equal to j
RECURSIVE Occurrences(_, _)
Occurrences(q, j) ==
  IF q = <<>> THEN 0 ELSE (IF Head(q) = j THEN 1 ELSE 0) + Occurrences(Tail(q), j)

\* C4: a job id is put on the queue once, when its record is created, and
\* never again; it is taken from the queue at most once, so it is either
\* still queued once or was dequeued once; no two workers process the same
\* job id at the same time.
C4_QueuedOnce ==
  /\ \A j \in JobIds :
       /\ pushes[j] = (IF j \in Created THEN 1 ELSE 0)
       /\ Occurrences(queue, j) + pops[j] = pushes[j]
  /\ \A v, w \in WorkerIds : (v # w /\ Working(v) /\ Working(w)) => held[v] # held[w]

\* two workers process two jobs while a third job waits in the queue
C4_Witness ==
  /\ \E v, w \in WorkerIds : v # w /\ Working(v) /\ Working(w)
  /\ \E j \in Created : Occurrences(queue, j) = 1 /\ pops[j] = 0
  /\ \E j \in Created : pops[j] = 1

\* C7: once stop() has been called no job is dequeued and no record goes
\* from queued to running, whether the id was in the queue at the time of
\* the call or was put there later.
C7_NoPickupAfterStop ==
  [][phase = "stopped" =>
       /\ pops' = pops
       /\ \A j \in Created : StatusOf(j) = QUEUED => Val(disk'.store[j]).status = QUEUED]_vars

\* stop() was called with a job waiting: every worker has ended, the job is
\* still in the queue and its record is still queued
C7_Witness ==
  /\ phase = "stopped"
  /\ \A w \in tasks : pc[w] = "ended"
  /\ \E j \in Created : Occurrences(queue, j) = 1 /\ StatusOf(j) = QUEUED

\* C8: a job that is running when stop() is called finishes its converter
\* call and its record reaches succeeded or failed: when the worker that
\* was processing it has ended, its record is not left running.
C8_InFlightFinishes ==
  \A w \in tasks :
    (phase = "stopped" /\ pc[w] = "ended" /\ held[w] # None)
      => StatusOf(Val(held[w])) \in Terminal

\* the jobs whose iteration ended without success
FailedIterations ==
  {j \in Created : /\ pops[j] = 1
                   /\ \A w \in WorkerIds : held[w] # Some(j)
                   /\ StatusOf(j) # SUCCEEDED}

\* C9: no failure of a job ends the worker loop: a worker leaves the loop
\* only when it is cancelled, and after an iteration that failed it is back
\* at queue.get().
C9_LoopSurvives ==
  /\ [](\A w \in WorkerIds : pc[w] # "crashed")
  /\ [][\A w \in WorkerIds :
          (pc[w] \in {"get", "convert", "write"} /\ pc'[w] \notin {"get", "convert", "write"})
            => (cancelReq[w] /\ pc'[w] = "ended")]_vars

\* more iterations have failed than there are workers, so a worker went on
\* after a failure; one failure was left unrecorded; the workers are back at
\* queue.get()
C9_Witness ==
  /\ Cardinality(FailedIterations) > WORKERS
  /\ \E j \in FailedIterations : StatusOf(j) = RUNNING
  /\ \E j \in FailedIterations : StatusOf(j) = FAILED
  /\ \A w \in tasks : pc[w] = "get"

\* the job ids being processed
InProgress == {j \in JobIds : \E w \in WorkerIds : Working(w) /\ held[w] = Some(j)}

\* C10: at most WORKERS jobs are being processed at any time, however many
\* are queued.
C10_BoundedPool ==
  /\ Cardinality({w \in WorkerIds : Working(w)}) <= WORKERS
  /\ Cardinality(InProgress) <= WORKERS

\* WORKERS jobs are in progress and another waits in the queue
C10_Witness ==
  /\ Cardinality(InProgress) = WORKERS
  /\ queue # <<>>

\* the credential text of the request that resp answers
Presented == Val(resp.hdr).text

\* C5: a status read or a result read returns content (the status view or
\* the Markdown text) only when the presented token verifies against the
\* stored digest of the job asked for; a token that does not verify gets no
\* content, whatever the state of the job.  Verifying means here what it
\* must mean: the token decodes to the secret that was issued for the job.
C5_ContentNeedsToken ==
  (resp.op \in {"status", "result"} /\ resp.body # None)
    => /\ resp.id \in Created
       /\ resp.hdr # None /\ Presented # None
       /\ Verify(Val(disk.store[resp.id]).access_token_hash, Val(Presented))
       /\ B64UrlToBytes(Val(Presented)) = B64UrlToBytes(Val(issued[resp.id]))

\* the Markdown text of a succeeded job was returned
C5_Witness ==
  /\ resp.op = "result" /\ resp.status = 200
  /\ resp.body = results[resp.id]
  /\ StatusOf(resp.id) = SUCCEEDED

\* C6: the token create_job_from_upload returned for a job verifies against
\* the digest persisted for that job in every later state, and a status
\* read presenting it is answered with the status view, never with
\* Unauthorized, Forbidden or NotReady.
C6_IssuedTokenOpens ==
  /\ \A j \in JobIds :
       issued[j] # None => (j \in Created /\ VerifyToken(Val(disk.store[j]), Val(issued[j])))
  /\ (/\ resp.op = "status"
      /\ resp.id \in JobIds
      /\ issued[resp.id] # None
      /\ resp.hdr = Header("bearer", issued[resp.id], 0))
       => (resp.status = 200 /\ resp.body # None /\ Val(resp.body).id = resp.id)

\* the issued token read the status of a job that had failed
C6_Witness ==
  /\ resp.op = "status" /\ resp.status = 200
  /\ resp.hdr = Header("bearer", issued[resp.id], 0)
  /\ Val(resp.body).status = FAILED

\* the records that are succeeded or failed
TerminalJobs == {j \in Created : StatusOf(j) \in Terminal}

C11_Balanced ==
  /\ unfinished = Len(queue) + Cardinality({w \in WorkerIds : Working(w)})
  /\ (Created # {} /\ TerminalJobs = Created) => unfinished = 0

\* every job was dequeued and acknowledged: one succeeded, one failed, and
\* for one the load raised and nothing could be recorded
C11_Witness ==
  /\ unfinished = 0 /\ queue = <<>>
  /\ \A j \in JobIds : pops[j] = 1
  /\ \E j \in Created : StatusOf(j) = SUCCEEDED
  /\ \E j \in Created : StatusOf(j) = FAILED
  /\ \E j \in Created : StatusOf(j) = QUEUED

\* resp answers a status read or a result read
IsRead == resp.op \in {"status", "result"}

\* the credential of the request is absent or malformed: no header, a
\* scheme other than bearer, nothing after the scheme, a character outside
\* the URL-safe alphabet (a third "=" included), or a length other than 43
\* once the padding is stripped
Malformed(h) ==
  \/ h = None
  \/ Val(h).scheme # "bearer"
  \/ Val(h).text = None
  \/ Val(h).pad > 2
  \/ Val(Val(h).text).junk > 0
  \/ Val(Val(h).text).len # 43

\* the request presents the token that was issued for the job it asks for
PresentsIssued ==
  /\ resp.id \in Created
  /\ ~Malformed(resp.hdr)
  /\ Presented = issued[resp.id]

\* the request presents a well-formed token that decodes to another secret
\* than the one issued for the job it asks for
PresentsWrong ==
  /\ resp.id \in Created
  /\ ~Malformed(resp.hdr)
  /\ B64UrlToBytes(Val(Presented)) # B64UrlToBytes(Val(issued[resp.id]))

\* C12: a result read with the correct token returns the converted Markdown
\* if and only if the job is succeeded; for a queued, running or failed job
\* it signals not-ready and returns no content.
C12_ResultIffSucceeded ==
  (resp.op = "result" /\ PresentsIssued)
    => IF StatusOf(resp.id) = SUCCEEDED
       THEN resp.status = 200 /\ resp.body # None /\ resp.body = results[resp.id]
       ELSE resp.code = "not_ready" /\ resp.body = None

\* the correct token asked for the result of a failed job and was told
\* not-ready
C12_Witness ==
  /\ resp.op = "result" /\ PresentsIssued
  /\ StatusOf(resp.id) = FAILED
  /\ resp.code = "not_ready"

\* C13: the response code of the not-ready outcome of a result read differs
\* from the response code the same read gets for an unknown job id and from
\* the one it gets without a credential.
C13_NotReadyDistinct ==
  (resp.op = "result" /\ PresentsIssued /\ resp.code = "not_ready")
    => /\ \A id \in AskedIds \ Created :
            resp.status # GetResultReply(id, resp.hdr, FALSE).status
       /\ resp.status # GetResultReply(resp.id, None, FALSE).status

\* C14: a status or result request whose credential is absent or malformed
\* is answered Unauthorized, with no content, whether or not the job exists
\* and whatever its state.
C14_MalformedUnauthorized ==
  (IsRead /\ Malformed(resp.hdr))
    => (resp.status = 401 /\ resp.code = "unauthorized" /\ resp.body = None)

\* a token one character short asked for a succeeded job and got 401
C14_Witness ==
  /\ IsRead /\ resp.status = 401
  /\ resp.id \in Created /\ StatusOf(resp.id) = SUCCEEDED
  /\ resp.hdr # None /\ Presented # None /\ Val(Presented).len = TOKEN_LEN - 1

\* C15: a status or result request for an existing job with a well-formed
\* token that does not match is answered Forbidden, with no content, in
\* every state of the job.
C15_WrongForbidden ==
  (IsRead /\ PresentsWrong)
    => (resp.status = 403 /\ resp.code = "forbidden" /\ resp.body = None)

\* a well-formed token of another secret asked for the result of a
\* succeeded job and got 403
C15_Witness ==
  /\ resp.op = "result" /\ PresentsWrong
  /\ StatusOf(resp.id) = SUCCEEDED
  /\ resp.status = 403

\* C16: a status or result request with a well-formed token for a job id
\* that has no persisted record is answered NotFound.
C16_UnknownNotFound ==
  (IsRead /\ ~Malformed(resp.hdr) /\ resp.id \notin Created)
    => (resp.status = 404 /\ resp.code = "not_found" /\ resp.body = None)

\* a token issued for an existing job asked for the status of an id that
\* has no record and got 404
C16_Witness ==
  /\ resp.op = "status" /\ resp.status = 404
  /\ resp.id \notin Created
  /\ \E j \in Created : Presented = issued[j]

\* C17: when the record exists but holds no token digest, a status or
\* result request with a well-formed token is answered NotReady, not
\* Forbidden or Unauthorized, and carries no job data.
C17_NoDigestNotReady ==
  (/\ IsRead
   /\ ~Malformed(resp.hdr)
   /\ resp.id \in Created
   /\ Val(disk.store[resp.id]).access_token_hash = EmptyDigest)
    => (resp.status = 423 /\ resp.code = "not_ready" /\ resp.body = None)

\* the result of a succeeded job without digest was asked for with a
\* well-formed token, and the answer was 423
C17_Witness ==
  /\ resp.op = "result" /\ resp.status = 423
  /\ ~Malformed(resp.hdr)
  /\ StatusOf(resp.id) = SUCCEEDED /\ results[resp.id] # None
  /\ Val(disk.store[resp.id]).access_token_hash = EmptyDigest

\* the names under which a response could carry the digest or the token
DigestKeys == {"access_token_hash", "access_token_digest"}
TokenKeys == {"access_token", "token"}
\* the X-Auth-* headers a read may carry
DebugKeys == {"length", "fingerprint", "has_token_hash", "job_id", "data_dir"}

\* C18: a successful status read returns every field of the persisted
\* record except the token digest, with the values persisted; no response
\* of creation, status read or result read carries the digest, in its
\* content or in its headers.
C18_DigestRedacted ==
  /\ (resp.op = "status" /\ resp.status = 200)
       => LET rec == Val(disk.store[resp.id])
              view == Val(resp.body)
          IN  /\ DOMAIN view = (DOMAIN rec) \ {"access_token_hash"}
              /\ \A k \in DOMAIN view : view[k] = rec[k]
  /\ (resp.op = "create" /\ resp.status = 202)
       => /\ (DOMAIN resp.body) \cap DigestKeys = {}
          /\ resp.body.access_token # Val(disk.store[resp.body.id]).access_token_hash.text
  /\ (resp.op = "result" /\ resp.body # None) => Val(resp.body) \in ApiMarkdowns
  /\ (IsRead /\ resp.headers # None)
       => /\ DOMAIN Val(resp.headers) = DebugKeys
          /\ Val(resp.headers).has_token_hash \in BOOLEAN

\* a status read was answered with the view of a record that holds a
\* digest, debug headers included
C18_Witness ==
  /\ resp.op = "status" /\ resp.status = 200
  /\ resp.headers # None
  /\ Val(disk.store[resp.id]).access_token_hash.kind = "b64"
  /\ Val(resp.body).status = RUNNING

\* C19: the raw token of a job is returned once, in the response of its
\* creation, and by no later operation; a persisted record never holds the
\* raw token, only its digest.
C19_TokenOnce ==
  /\ [](\A j \in JobIds :
         issued[j] # None
           => LET rec == Val(disk.store[j])
              IN  /\ (DOMAIN rec) \cap TokenKeys = {}
                  /\ rec.access_token_hash = TextDigest(HashToken(Val(issued[j])))
                  /\ rec.access_token_hash.text # Val(issued[j]))
  /\ []((resp.op = "create" /\ resp.status = 202)
           => resp.body.access_token = Val(issued[resp.body.id]))
  /\ []((resp.op = "status" /\ resp.body # None)
           => (DOMAIN Val(resp.body)) \cap TokenKeys = {})
  /\ []((IsRead /\ resp.headers # None)
           => /\ DOMAIN Val(resp.headers) = DebugKeys
              /\ Val(resp.headers).fingerprint = Fingerprint(Val(Presented)))
  /\ [][\A j \in JobIds :
          issued[j] # None
            => /\ issued'[j] = issued[j]
               /\ ~(resp' # resp /\ resp'.op = "create" /\ resp'.status = 202
                                /\ resp'.body.id = j)]_vars

\* after its creation a job was read with its token: the reply, with debug
\* headers, carries the fingerprint of the presented credential and no token
C19_Witness ==
  /\ resp.op = "status" /\ resp.status = 200 /\ resp.headers # None
  /\ PresentsIssued
  /\ Val(resp.body).status = SUCCEEDED

\* The bytes a stream delivers before its first empty chunk, and the call of
\* the reader at which the running size first passes the limit (0 when never).
RECURSIVE StreamSize(_)
StreamSize(chunks) ==
  IF chunks = <<>> \/ Head(chunks) = <<>> THEN 0
  ELSE Len(Head(chunks)) + StreamSize(Tail(chunks))

Delivered(chunks) ==
  {n \in 1..Len(chunks) : \A k \in 1..n : chunks[k] # <<>>}

FirstExcess(chunks) ==
  LET over == {n \in Delivered(chunks) : StreamSize(SubSeq(chunks, 1, n)) > MaxBytes}
  IN  IF over = {} THEN 0 ELSE CHOOSE n \in over : \A m \in over : n <= m

TooLarge(up) == ~UnsupportedMedia(up) /\ StreamSize(up.chunks) >= MaxBytes + 1

Rejected == dirs \ Created

RECURSIVE StreamBytes(_)
StreamBytes(chunks) ==
  IF chunks = <<>> \/ Head(chunks) = <<>> THEN <<>>
  ELSE Head(chunks) \o StreamBytes(Tail(chunks))

Accepted == resp.op = "create" /\ resp.status = 202

\* the declared name from its last dot on, nothing when it has no dot
LastDot(name) ==
  IF \A k \in 1..Len(name) : name[k] # "." THEN 0
  ELSE CHOOSE k \in 1..Len(name) : name[k] = "." /\ \A m \in (k + 1)..Len(name) : name[m] # "."

Extension(name) == IF LastDot(name) = 0 THEN <<>> ELSE SubSeq(name, LastDot(name), Len(name))

\* the declared name, as the service takes it
Declared == OriginalName(resp.req.filename)

\* a separator is followed by something after the last dot of the name
SeparatorInside(name) ==
  \E k \in 1..Len(Extension(name)) :
    Extension(name)[k] = "/" /\ \E m \in (k + 1)..Len(Extension(name)) : Extension(name)[m] # "/"

\* C21: an upload of a supported type whose size does not pass the limit,
\* under a name its input file can be opened with, is accepted, and then
\* the stored input file is the concatenation, in order, of the chunks read
\* up to the end of the stream, the record's size_bytes is the number of
\* those bytes and its checksum is the hash of those bytes; file, size and
\* checksum of every stored job agree with each other.
C21_StoredAsRead ==
  /\ (/\ resp.op = "create" /\ ~UnsupportedMedia(resp.req)
      /\ StreamSize(resp.req.chunks) <= MaxBytes /\ ~SeparatorInside(Declared))
       => resp.status = 202
  /\ Accepted =>
       LET id == resp.body.id
           bytes == StreamBytes(resp.req.chunks)
       IN  /\ id \in Created
           /\ inputs[id] # None
           /\ Val(inputs[id]).data = bytes
           /\ Val(disk.store[id]).size_bytes = Len(bytes)
           /\ Val(disk.store[id]).checksum = Sha256Hex(bytes)
           /\ resp.reads = Cardinality(Delivered(resp.req.chunks)) + 1
  /\ \A j \in Created :
       /\ inputs[j] # None
       /\ Val(disk.store[j]).size_bytes = Len(Val(inputs[j]).data)
       /\ Val(disk.store[j]).checksum = Sha256Hex(Val(inputs[j]).data)

\* an upload of two different non-empty chunks was accepted and stored
C21_Witness ==
  /\ Accepted
  /\ Len(resp.req.chunks) = 2
  /\ resp.req.chunks[1] # <<>> /\ resp.req.chunks[2] # <<>>
  /\ resp.req.chunks[1] # resp.req.chunks[2]
  /\ Val(inputs[resp.body.id]).data = resp.req.chunks[1] \o resp.req.chunks[2]

\* C22: hash_token gives one digest per token, verify accepts a token
\* against its own digest, and rejects against that digest every token
\* text that differs from it.
C22_OnlyTheTokenVerifies ==
  /\ resp.op = "hash_token" /\ ~resp.out.raised => resp.out.value = HashToken(resp.token)
  /\ resp.op = "verify" =>
       \A t \in Decodable :
         resp.phc = TextDigest(HashToken(t)) =>
           /\ resp.token = t => resp.out = Returned(TRUE)
           /\ resp.token # t => resp.out # Returned(TRUE)

\* C23: verify returns, and never raises, for every stored digest string
\* and every presented text; where the text does not decode, where the
\* digest is empty and where a legacy digest was made from another secret,
\* what it returns is false.
C23_VerifyNeverRaises ==
  resp.op = "verify" =>
    /\ ~resp.out.raised
    /\ resp.out.value \in BOOLEAN
    /\ B64UrlToBytes(resp.token) = None => resp.out.value = FALSE
    /\ resp.phc.kind = "empty" => resp.out.value = FALSE
    /\ (resp.phc.kind = "argon2" /\ B64UrlToBytes(resp.token) # Some(resp.phc.of))
         => resp.out.value = FALSE

\* a text that cannot be decoded was verified against a legacy digest
C23_Witness ==
  /\ resp.op = "verify"
  /\ resp.phc.kind = "argon2"
  /\ B64UrlToBytes(resp.token) = None
  /\ resp.out = Returned(FALSE)

\* the name of the stored input file of job j, and the directory it is in
StoredName(j) == Val(inputs[j]).name[4]
StoredDir(j) == SubSeq(Val(inputs[j]).name, 1, 3)

\* C24 as stated: for every declared name the stored input file keeps the
\* extension of the declared name, is never named as declared, and lies in
\* the input directory of its job.
C24_AsClaimed ==
  Accepted =>
    /\ StoredDir(resp.body.id) = <<"jobs", resp.body.id, "input">>
    /\ \A k \in 1..Len(StoredName(resp.body.id)) : StoredName(resp.body.id)[k] # "/"
    /\ StoredName(resp.body.id) = <<"original">> \o Joined(Extension(Declared))
    /\ StoredName(resp.body.id) # Declared

\* C24: the stored input file is a direct entry of the input directory of
\* its own job, named "original" followed by the declared name from its
\* last dot on; nothing before that dot reaches the name, so the file is
\* named as declared only when the declared name is itself "original"
\* with at most one dot.  A declared name with a path separator after its
\* last dot, inside what follows, stores no file at all: the upload is
\* answered 500 and only the job directories are left.  A creation request
\* never touches the files of another job.
C24_StoredUnderOwnName ==
  /\ [](Accepted =>
          /\ StoredDir(resp.body.id) = <<"jobs", resp.body.id, "input">>
          /\ \A k \in 1..Len(StoredName(resp.body.id)) : StoredName(resp.body.id)[k] # "/"
          /\ StoredName(resp.body.id) = <<"original">> \o Joined(Extension(Declared))
          /\ StoredName(resp.body.id) = Declared => Head(Declared) = "original"
          /\ Val(disk.store[resp.body.id]).input_uri = Val(inputs[resp.body.id]).name)
  /\ [](resp.op = "create" /\ ~UnsupportedMedia(resp.req)
          => (resp.status = 500 <=> SeparatorInside(Declared)))
  /\ [](\A j \in JobIds : inputs[j] # None => StoredDir(j) = <<"jobs", j, "input">>)
  /\ [][resp' # resp /\ resp'.op = "create"
          => /\ \A j \in JobIds : inputs[j] # None => inputs'[j] = inputs[j]
             /\ resp'.status = 500 => inputs' = inputs /\ disk' = disk /\ queue' = queue
             /\ results' = results]_vars

\* a name that leads out of every directory before its last dot was stored
\* as original.pdf, and a name with separators after its last dot was
\* stored nowhere
C24_Witness ==
  /\ Accepted
  /\ resp.req.filename = <<".", ".", "/", "a", ".", "pdf">>
  /\ StoredName(resp.body.id) = <<"original", ".", "pdf">>
  /\ \E j \in dirs : j # resp.body.id /\ inputs[j] = None /\ j \notin Created

\* neither the content type nor the extension of the name is one the
\* service knows
Unrecognized(up) ==
  /\ up.content_type \notin ALLOWED_MIME
  /\ Extension(up.filename) \notin SupportedExts

\* C25: a submission whose content type and extension are both
\* unrecognized is answered unsupported-type (415), and that step creates no
\* job directory, no input file and no record, enqueues nothing and issues
\* no token.
C25_UnrecognizedRejected ==
  /\ [](resp.op = "create" /\ Unrecognized(resp.req) => resp.status = 415)
  /\ [][resp' # resp /\ resp'.op = "create" /\ resp'.status = 415
          => /\ dirs' = dirs /\ inputs' = inputs /\ disk' = disk
             /\ queue' = queue /\ unfinished' = unfinished /\ issued' = issued]_vars

Rec(j) == Val(disk.store[j])
EnteredRunning(j) == \E k \in 1..Len(disk.log[j]) : disk.log[j][k] = RUNNING

\* a timestamp of job j, once written, is not written again in this step
KeptOnceSet(j, field) ==
  Rec(j)[field] # None => disk'.store[j] # None /\ Val(disk'.store[j])[field] = Rec(j)[field]

\* a timestamp of job j is written only by a step that persists the given
\* status for the first time, with the time of that step
SetOnlyWith(j, field, status) ==
  (Rec(j)[field] = None /\ Val(disk'.store[j])[field] # None)
    => /\ \A k \in 1..Len(disk.log[j]) : disk.log[j][k] # status
       /\ \E k \in (Len(disk.log[j]) + 1)..Len(disk'.log[j]) : disk'.log[j][k] = status
       /\ Val(disk'.store[j])[field] = Some(clock)

\* C26 as stated: created_at, updated_at, started_at, completed_at and
\* failed_at are each written once and never again; started_at is set iff
\* the job has entered running, completed_at iff it is succeeded, failed_at
\* iff it is failed.
C26_AsClaimed ==
  /\ [](\A j \in Created :
          /\ Rec(j).started_at # None <=> EnteredRunning(j)
          /\ Rec(j).completed_at # None <=> Rec(j).status = SUCCEEDED
          /\ Rec(j).failed_at # None <=> Rec(j).status = FAILED)
  /\ [][\A j \in Created :
          /\ disk'.store[j] # None
          /\ Val(disk'.store[j]).created_at = Rec(j).created_at
          /\ Val(disk'.store[j]).updated_at = Rec(j).updated_at
          /\ KeptOnceSet(j, "started_at")
          /\ KeptOnceSet(j, "completed_at")
          /\ KeptOnceSet(j, "failed_at")]_vars

\* C26: created_at is written at creation and never again; started_at,
\* completed_at and failed_at are null until the step that persists
\* running, succeeded or failed writes them with the time of that step, and
\* are never written again; started_at is set iff the job has entered
\* running, completed_at iff it is succeeded, failed_at iff it is failed.
\* updated_at is never null and is rewritten by every transition: it is
\* always the time of the last one.
C26_Timestamps ==
  /\ [](\A j \in Created :
          /\ Rec(j).started_at # None <=> EnteredRunning(j)
          /\ Rec(j).completed_at # None <=> Rec(j).status = SUCCEEDED
          /\ Rec(j).failed_at # None <=> Rec(j).status = FAILED
          /\ Rec(j).updated_at =
               CASE Rec(j).status = FAILED -> Val(Rec(j).failed_at)
                 [] Rec(j).status = SUCCEEDED -> Val(Rec(j).completed_at)
                 [] Rec(j).status = RUNNING -> Val(Rec(j).started_at)
                 [] OTHER -> Rec(j).created_at)
  /\ [][\A j \in Created :
          /\ disk'.store[j] # None
          /\ Val(disk'.store[j]).created_at = Rec(j).created_at
          /\ KeptOnceSet(j, "started_at")
          /\ KeptOnceSet(j, "completed_at")
          /\ KeptOnceSet(j, "failed_at")
          /\ SetOnlyWith(j, "started_at", RUNNING)
          /\ SetOnlyWith(j, "completed_at", SUCCEEDED)
          /\ SetOnlyWith(j, "failed_at", FAILED)
          /\ Val(disk'.store[j]).status # Rec(j).status
               => Val(disk'.store[j]).updated_at = clock]_vars

\* a job created at one time was started and completed at a later one; its
\* record tells the two apart and updated_at is the later
C26_Witness ==
  \E j \in Created :
    /\ Rec(j).status = SUCCEEDED
    /\ Rec(j).failed_at = None
    /\ Rec(j).created_at < Val(Rec(j).completed_at)
    /\ Rec(j).updated_at = Val(Rec(j).completed_at)

\* C27: once a record is persisted, every later step (a worker persisting
\* running, succeeded or failed, a status read, a result read) leaves its
\* id and its access_token_hash as they are; in every state a record's id
\* is the id it is stored under and its digest is the digest of the token
\* issued at creation.
C27_IdAndDigestFixed ==
  /\ [](\A j \in Created :
          /\ Rec(j).id = j
          /\ Rec(j).access_token_hash = TextDigest(HashToken(Val(issued[j]))))
  /\ [][\A j \in Created :
          /\ disk'.store[j] # None
          /\ Val(disk'.store[j]).id = Rec(j).id
          /\ Val(disk'.store[j]).access_token_hash = Rec(j).access_token_hash]_vars

\* a job went through its transitions to a terminal status and was then
\* read with its token
C27_Witness ==
  /\ IsRead /\ resp.status = 200
  /\ resp.id \in Created
  /\ Len(disk.log[resp.id]) = 3
  /\ Rec(resp.id).status \in Terminal

\* job ids waiting in the queue or in the hands of a worker
Pending == {j \in JobIds : Occurrences(queue, j) > 0} \cup {Val(held[w]) : w \in {v \in WorkerIds : held[v] # None}}

\* C28: whenever a job id is in the queue or held by a worker, its record
\* is in the store and carries a digest; a worker that takes an id from the
\* queue finds its record, and a status read of a created job is never
\* answered as a record without digest (423).
C28_RecordBeforeEnqueue ==
  /\ [](\A j \in Pending : LoadJob(disk, j) # None /\ ~LacksDigest(Rec(j)))
  /\ [](\A j \in JobIds : pushes[j] > 0 => j \in Created /\ disk.log[j][1] = QUEUED)
  /\ [](resp.op = "status" /\ issued[resp.id] # None => resp.status # 423)
  /\ [][\A j \in JobIds : pops'[j] > pops[j] => LoadJob(disk, j) # None]_vars

\* a worker took a created job from the queue and holds it, and a status
\* read of that job was answered with its record
C28_Witness ==
  /\ resp.op = "status" /\ resp.status = 200
  /\ \E w \in WorkerIds : held[w] = Some(resp.id)
  /\ pops[resp.id] = 1

\* the fields the except branch assigns
FailureFields == {"status", "error", "failed_at", "updated_at"}

\* the step persists job j as running and then as failed
RanAndFailed(j) == Len(disk'.log[j]) = Len(disk.log[j]) + 2

\* the texts of the failures a worker in the given position can meet
FailureTexts(at) ==
  CASE at = "get" -> {"load failed", "save failed", "mkdir failed"}
    [] at = "convert" -> {"conversion failed"}
    [] at = "write" -> {"write failed", "save failed"}
    [] OTHER -> {}

\* C29: a step that persists a job as failed changes, of the record last
\* persisted, only status (to failed), error (to the text of the failure),
\* failed_at and updated_at (to the time of the failure); every other
\* field, progress, output_uri and started_at among them, keeps the value
\* last persisted.  What the worker had assigned to its own copy and not
\* saved (progress 100, output_uri) is not in a failed record.
C29_FailureTouchesFourFields ==
  /\ [][\A j \in Created :
          (Rec(j).status # FAILED /\ Val(disk'.store[j]).status = FAILED) =>
            /\ \A f \in (DOMAIN Rec(j)) \ (FailureFields \cup {"started_at"}) :
                 Val(disk'.store[j])[f] = Rec(j)[f]
            /\ Val(disk'.store[j]).started_at =
                 IF RanAndFailed(j) THEN Some(clock) ELSE Rec(j).started_at
            /\ Val(disk'.store[j]).failed_at = Some(clock)
            /\ Val(disk'.store[j]).updated_at = clock
            /\ \E w \in WorkerIds :
                 /\ pc[w] \in {"get", "convert", "write"}
                 /\ pc[w] # "get" => held[w] = Some(j)
                 /\ Val(disk'.store[j]).error \in {Some(t) : t \in FailureTexts(pc[w])}]_vars
  /\ [](\A j \in Created :
          Rec(j).status = FAILED => Rec(j).progress = 0 /\ Rec(j).output_uri = None)

\* the result of a job was written, the save of the succeeded record
\* failed, and the job is persisted as failed, started and without output
C29_Witness ==
  \E j \in Created :
    /\ Rec(j).status = FAILED
    /\ Rec(j).error = Some("save failed")
    /\ Rec(j).started_at # None
    /\ results[j] # None
    /\ Rec(j).progress = 0

\* the result read of job j by the holder of its token
OwnerRead(j) == GetResultReply(j, Header("bearer", issued[j], 0), FALSE)

\* C30: whenever a record is succeeded its result file exists and a result
\* read with the job's token is answered 200 with the file as text; the
\* step that persists a job as succeeded leaves a file that reads back as
\* exactly the text the converter returned to that worker, and the file is
\* not written again.
C30_ResultIsConverterText ==
  /\ [](\A j \in Created :
          Rec(j).status = SUCCEEDED =>
            /\ results[j] # None
            /\ OwnerRead(j).status = 200
            /\ OwnerRead(j).body = Some(ReadText(Val(results[j]))))
  /\ [][\A w \in WorkerIds :
          (/\ pc[w] = "write" /\ held[w] # None
           /\ Val(disk'.store[Val(held[w])]).status = SUCCEEDED)
            => Some(ReadText(Val(results'[Val(held[w])]))) = md[w]]_vars
  /\ [][\A j \in Created :
          Rec(j).status = SUCCEEDED => results'[j] = results[j]]_vars

SuccessFields == {"progress", "output_uri", "status", "completed_at", "updated_at"}

\* C32: from the save of running to the save of the terminal state the
\* record of job J is written only by the worker that dequeued J: one worker
\* at most holds J, the stored record stays equal to the copy that worker
\* holds across the converter call (no other write that its save could
\* lose), a step that changes J's record ends that worker's iteration, and
\* the record saved on success is the record persisted at running with
\* progress, output_uri, status, completed_at and updated_at changed and
\* every other field as it was.
C32_OwnedByItsWorker ==
  /\ [](\A w \in WorkerIds, v \in WorkerIds : held[w] # None /\ held[w] = held[v] => w = v)
  /\ [](\A w \in WorkerIds : held[w] # None =>
          /\ disk.store[Val(held[w])] = job[w]
          /\ Val(job[w]).status = RUNNING
          /\ disk.log[Val(held[w])] = <<QUEUED, RUNNING>>)
  /\ [][\A w \in WorkerIds : held[w] # None /\ disk'.store[Val(held[w])] # disk.store[Val(held[w])]
          => held'[w] = None /\ Val(disk'.store[Val(held[w])]).status \in Terminal]_vars
  /\ [][\A j \in Created : StatusOf(j) # SUCCEEDED /\ Val(disk'.store[j]).status = SUCCEEDED =>
          /\ \E w \in WorkerIds : held[w] = Some(j) /\ pc[w] = "write"
          /\ StatusOf(j) = RUNNING
          /\ \A k \in (DOMAIN Rec(j)) \ SuccessFields : Val(disk'.store[j])[k] = Rec(j)[k]
          /\ Val(disk'.store[j]).progress = 100
          /\ Val(disk'.store[j]).output_uri = Some(ResultPath(j))
          /\ Val(disk'.store[j]).completed_at = Some(clock)
          /\ Val(disk'.store[j]).updated_at = clock]_vars

\* a job was saved as succeeded by its worker while another worker holds
\* another job across its converter call
C32_Witness ==
  \E j \in Created, i \in Created, w \in WorkerIds :
    /\ j # i
    /\ StatusOf(j) = SUCCEEDED /\ disk.log[j] = <<QUEUED, RUNNING, SUCCEEDED>>
    /\ Rec(j).started_at # None /\ Rec(j).output_uri # None
    /\ held[w] = Some(i) /\ pc[w] = "convert" /\ StatusOf(i) = RUNNING

\* C33: while a worker is inside its converter call or its write of the
\* result, the event loop still runs everything else: an idle worker can
\* dequeue when the queue is not empty, another worker's finished call is
\* resumed, a status read of any job and a submission are served (one
\* handler at a time), and a response is sent.
C33_OthersGoOn ==
  \A w \in WorkerIds : pc[w] \in {"convert", "write"} =>
    /\ \A v \in tasks \ {w} : pc[v] = "get" /\ queue # <<>> => ENABLED WorkerGet(v, "none", TRUE)
    /\ \A v \in tasks \ {w} : pc[v] = "convert" =>
          ENABLED (\E text \in CoreMarkdowns : ConvertReturns(v, text))
    /\ \A v \in tasks \ {w} : pc[v] = "write" => ENABLED WriteReturns(v, TRUE, TRUE)
    /\ resp = NoResp =>
          /\ \A id \in PoolJobs, h \in OwnerHeaders : ENABLED GetJob(id, h, FALSE)
          /\ FreshIds(PoolJobs) # {} =>
                \A up \in CoreUploads, r \in CoreSecrets : ENABLED CreateJob(up, r, PoolJobs)
    /\ resp # NoResp => ENABLED Sent

\* the worker that dequeued the first job is still inside its converter
\* call; the job submitted after it was dequeued by the other worker and
\* has succeeded, and a status read of it was answered meanwhile
C33_Witness ==
  \E w \in WorkerIds :
    /\ pc[w] = "convert" /\ held[w] = Some(1) /\ StatusOf(1) = RUNNING
    /\ 2 \in Created /\ StatusOf(2) = SUCCEEDED /\ results[2] # None
    /\ resp.op = "status" /\ resp.id = 2 /\ resp.status = 200
    /\ Val(resp.body).status = SUCCEEDED

\* job i was enqueued before job j.  uuid4 values carry no order; the ids of
\* this model are handed out in ascending order, one per submission, and an
\* accepted submission enqueues its id before the handler returns, so among
\* enqueued ids the order of the ids is the order of the put() calls.
EnqueuedBefore(i, j) == pushes[i] > 0 /\ pushes[j] > 0 /\ i < j

\* C34: ids leave the queue in the order they entered it: the queue holds
\* them oldest first, a dequeue takes the head, and a job enqueued after
\* another is never dequeued, and never running, before the other was
\* dequeued; every submission that is accepted appends its id to the tail
\* in the same step, whatever the queue holds and however many workers are
\* busy.
C34_FifoNeverRejects ==
  /\ [](\A a \in 1..Len(queue), b \in 1..Len(queue) : a < b => EnqueuedBefore(queue[a], queue[b]))
  /\ [](\A i \in JobIds, j \in JobIds :
          EnqueuedBefore(i, j) /\ (pops[j] > 0 \/ Occurrences(Persisted(j), RUNNING) > 0)
            => pops[i] > 0)
  /\ [][\A j \in JobIds : pops'[j] > pops[j] =>
          queue # <<>> /\ j = queue[1] /\ queue' = Tail(queue)]_vars
  /\ [][resp' # resp /\ resp'.op = "create" =>
          /\ resp'.status = 202
          /\ queue' = Append(queue, resp'.body.id)
          /\ pushes'[resp'.body.id] = 1]_vars
  /\ [](resp = NoResp /\ phase # "new" /\ FreshIds(PoolJobs) # {} =>
          \A up \in CoreUploads, r \in CoreSecrets : ENABLED CreateJob(up, r, PoolJobs))

\* every worker of the pool is inside a call for one of the oldest jobs,
\* dequeued in their order, and a further submission was accepted and its
\* id enqueued
C34_Witness ==
  /\ resp.op = "create" /\ resp.status = 202
  /\ queue = <<resp.body.id>>
  /\ tasks # {} /\ \A w \in tasks : pc[w] \in {"convert", "write"}
  /\ \A j \in JobIds : j < resp.body.id => pops[j] = 1

\* C35: a worker that dequeues an id with no record in the store abandons
\* it: the step leaves the store, the directories, the inputs and the
\* result files as they were, acknowledges the entry (task_done) and leaves
\* every worker where it was, the one that dequeued back at queue.get();
\* no worker ever ends by an error, and an id of no job never gets a record,
\* a directory or a result.
C35_AbsentAbandoned ==
  /\ [][\A j \in JobIds : pops'[j] > pops[j] /\ LoadJob(disk, j) = None =>
          /\ disk' = disk /\ dirs' = dirs /\ inputs' = inputs /\ results' = results
          /\ unfinished' = unfinished - 1
          /\ queue' = Tail(queue)
          /\ pc' = pc /\ held' = held /\ job' = job]_vars
  /\ [](\A w \in WorkerIds : pc[w] # "crashed")
  /\ [](\A j \in JobIds : pushes[j] > 0 /\ issued[j] = None =>
          LoadJob(disk, j) = None /\ j \notin dirs /\ results[j] = None /\ disk.log[j] = <<>>)
  /\ [](\A w \in WorkerIds : held[w] # None => LoadJob(disk, Val(held[w])) # None)

\* the ids of no job were dequeued and acknowledged; the job submitted
\* behind them was then dequeued by a worker of the same pool and has
\* succeeded, and a status read of an abandoned id is answered not found
C35_Witness ==
  /\ \A j \in StrayIds : pushes[j] = 1 /\ pops[j] = 1 /\ LoadJob(disk, j) = None
  /\ \E j \in Created : StatusOf(j) = SUCCEEDED /\ pops[j] = 1
  /\ unfinished = 0 /\ queue = <<>>
  /\ resp.op = "status" /\ resp.id \in StrayIds /\ resp.status = 404

\* every worker of the pool is inside a converter call
AllConverting == tasks # {} /\ \A w \in tasks : pc[w] = "convert"

\* C36: nothing but the converter's own return or raise ends a pending
\* converter call: the passing of time changes no worker, no record and no
\* queue; while the call is pending its worker keeps the job and the job's
\* record stays running; and while every worker of the pool is inside a
\* converter call no id is dequeued and no queued record changes.
C36_NoTimeout ==
  /\ [][clock' # clock =>
          /\ pc' = pc /\ held' = held /\ queue' = queue /\ unfinished' = unfinished
          /\ disk' = disk /\ pops' = pops]_vars
  /\ [][\A w \in WorkerIds : pc[w] = "convert" /\ pc'[w] # "convert" =>
          \/ pc'[w] = "write" /\ md'[w] # None /\ held'[w] = held[w]
          \/ /\ pc'[w] = "get"
             /\ Val(disk'.store[Val(held[w])]).status = FAILED
             /\ Val(disk'.store[Val(held[w])]).error = Some("conversion failed")]_vars
  /\ [][\A w \in WorkerIds : pc[w] = "convert" /\ pc'[w] = "convert" =>
          /\ held'[w] = held[w]
          /\ Val(disk'.store[Val(held[w])]).status = RUNNING]_vars
  /\ [](\A w \in WorkerIds : pc[w] = "convert" =>
          held[w] # None /\ StatusOf(Val(held[w])) = RUNNING)
  /\ [][AllConverting /\ (\A w \in tasks : pc'[w] = "convert") =>
          /\ pops' = pops
          /\ \A k \in 1..Len(queue) : queue'[k] = queue[k]
          /\ \A j \in Created : StatusOf(j) = QUEUED => Val(disk'.store[j]).status = QUEUED]_vars

\* every worker has been inside its converter call since the clock read 0,
\* the clock has reached its last value, and a job submitted since is
\* still queued behind them
C36_Witness ==
  /\ AllConverting
  /\ clock = MaxTime
  /\ \A w \in tasks : Rec(Val(held[w])).started_at = Some(0) /\ StatusOf(Val(held[w])) = RUNNING
  /\ \E j \in Created : StatusOf(j) = QUEUED /\ Occurrences(queue, j) = 1
                          /\ Rec(j).created_at = MaxTime

\* C37: in every record in the store progress is 0 or 100, and it is 100
\* exactly when the status is succeeded.
C37_ProgressIffSucceeded ==
  \A j \in Created :
    /\ Rec(j).progress \in {0, 100}
    /\ Rec(j).progress = 100 <=> StatusOf(j) = SUCCEEDED

\* one job has succeeded with progress 100; another failed after its result
\* was written, when the save of the succeeded record raised (the worker's
\* own copy carried progress 100), and is stored with progress 0; a third
\* is queued with progress 0
C37_Witness ==
  \E a \in Created, b \in Created, c \in Created :
    /\ StatusOf(a) = SUCCEEDED /\ Rec(a).progress = 100
    /\ StatusOf(b) = FAILED /\ Rec(b).progress = 0 /\ results[b] # None
    /\ Rec(b).error = Some("save failed") /\ Persisted(b) = <<QUEUED, RUNNING, FAILED>>
    /\ StatusOf(c) = QUEUED /\ Rec(c).progress = 0

\* what the process holds besides the response in flight
Stored == <<phase, tasks, pc, cancelReq, held, job, md, queue, unfinished, dirs, inputs,
            disk, results, clock, pushes, pops, issued>>

\* C38: a status read or a result read, whatever it is answered, changes
\* nothing but the response: every record, the queue, the input and result
\* files and the workers are as before; the request asked again in the
\* state the read left is answered the same, with the same content; and a
\* result file that has been written for a succeeded job is never changed,
\* so later reads of the result return that content too.
C38_ReadsChangeNothing ==
  /\ [][resp' # resp /\ resp'.op \in {"status", "result"} => Stored' = Stored]_vars
  /\ [](resp.op = "status" =>
          \E debug \in BOOLEAN : GetJobReply(resp.id, resp.hdr, debug) = resp)
  /\ [](resp.op = "result" =>
          \E debug \in BOOLEAN : GetResultReply(resp.id, resp.hdr, debug) = resp)
  /\ [](resp.op = "result" /\ resp.status = 200 =>
          resp.body = Some(ReadText(Val(results[resp.id]))))
  /\ [][\A j \in Created : StatusOf(j) = SUCCEEDED =>
          results'[j] = results[j] /\ disk'.store[j] = disk.store[j]]_vars

\* a result read with the issued token was answered with the content while
\* the record, the result file and the queue accounting are as the worker
\* left them
C38_Witness ==
  /\ resp.op = "result" /\ resp.status = 200 /\ PresentsIssued
  /\ StatusOf(resp.id) = SUCCEEDED
  /\ results[resp.id] # None /\ resp.body = Some(ReadText(Val(results[resp.id])))
  /\ Persisted(resp.id) = <<QUEUED, RUNNING, SUCCEEDED>>
  /\ queue = <<>> /\ unfinished = 0

\* the entries put on the queue, the entries dequeued, and the task_done()
\* calls made so far (the queue counts put() calls less task_done() calls)
Enqueued == Cardinality({j \in JobIds : pushes[j] > 0})
Dequeued == Cardinality({j \in JobIds : pops[j] > 0})
Acknowledged == Enqueued - unfinished

\* C39: the delivery of a cancellation ends the worker and leaves the queue
\* and the dequeue counts alone; it acknowledges one entry when the worker
\* was processing a job (inside the converter call or the write) and none
\* when it was waiting on the queue; an entry is put and dequeued once at
\* most, and at all times the acknowledgements made are the entries
\* dequeued less those still being processed, never more than the entries
\* dequeued.
C39_CancelAccounting ==
  /\ [][\A w \in WorkerIds : cancelReq[w] /\ ~cancelReq'[w] =>
          /\ pc'[w] = "ended"
          /\ queue' = queue /\ pops' = pops /\ pushes' = pushes
          /\ pc[w] \in {"convert", "write"} => unfinished' = unfinished - 1
          /\ pc[w] = "get" => unfinished' = unfinished]_vars
  /\ [](\A j \in JobIds : pushes[j] <= 1 /\ pops[j] <= pushes[j])
  /\ [](Acknowledged = Dequeued - Cardinality({w \in WorkerIds : Working(w)}))
  /\ [](Acknowledged <= Dequeued /\ unfinished >= 0)

\* stop() came with one worker inside a converter call, another waiting
\* on the queue and an entry it had not taken: both have ended, the first
\* job's entry is acknowledged and its record is still running, the other
\* entry is still queued and unacknowledged
C39_Witness ==
  /\ phase = "stopped" /\ \A w \in tasks : pc[w] = "ended"
  /\ \E w \in tasks : held[w] # None /\ StatusOf(Val(held[w])) = RUNNING
  /\ \E w \in tasks : held[w] = None
  /\ Len(queue) = 1 /\ unfinished = 1
  /\ Dequeued = 1 /\ Acknowledged = 1 /\ Enqueued = 2
====
